---- MODULE Spec2Model ----
(***************************************************************************)
(* A model of the laklak market-data pipeline: the symbol-migration tool   *)
(* (migrate_db_symbols.py), the chunked historical backfill (backfill.py), *)
(* the error handling and the paging loops of the venue adapters           *)
(* (modules/exchanges), and the batched writer with its funding-period     *)
(* cache (modules/influx_writer.py).                                       *)
(*                                                                         *)
(* Strings on which the code computes (symbols, exchange names, the        *)
(* operator's answer) are sequences of one-character strings, so that      *)
(* str.replace, str.endswith, str.lower and str.upper are modelled by what *)
(* they do.  Strings the code only compares for equality are TLA+ strings. *)
(***************************************************************************)
EXTENDS Integers, Sequences, FiniteSets, Bags, TLC

VARIABLES
    \* ---- calculate_new_symbol applied to one input ----
    sym_in,        \* [old_symbol, exchange, data_type] handed to calculate_new_symbol
    sym_out,       \* <<>> before the call, <<result>> after it
    \* ---- migration tool (migrate_db_symbols.py main) ----
    mpc,           \* position of the migration process
    mode,          \* "migrate" | "dry-run" | "verify" (command line)
    run,           \* 1 for the first invocation of the tool, 2 for the re-run
    mstore,        \* the persisted points of measurement market_data
    plan,          \* migration_plan built by migrate_data
    idx,           \* index of the plan entry being applied
    selected,      \* SELECT result of the entry being applied (a sequence)
    copied,        \* how many of `selected` were handed to write_points so far
    response,      \* operator's answer to the prompt (<<>> when not asked)
    entryState,    \* per plan entry: PENDING | COPIED | DELETED | PARTIAL | FAILED
    storeAtStart,  \* mstore when this invocation started
    nWrites,       \* write_points calls issued by this invocation
    nDeletes,      \* DELETE queries issued by this invocation
    run1Clean,     \* the first invocation migrated every entry of its plan
    flagged,       \* old-format symbols reported by verify_migration
    deleteIssued,  \* indexes of the plan entries whose DELETE was issued
    faults,        \* store failures injected so far (bounded by MaxFaults)
    \* ---- historical backfill (backfill.py run) ----
    coins,         \* what load_coins returned: <<[symbol, exchanges], ...>>
    total_days,    \* TOTAL_DAYS
    chunk_size_days, \* CHUNK_SIZE_DAYS
    shift,         \* days between the first and the second run
    bpc,           \* position of the backfill process
    brun,          \* 1 for the first run of the backfill, 2 for the second
    coin,          \* index of the coin being backfilled
    venue,         \* index of the venue block being executed
    chunk,         \* chunk_num of the chunk loop
    chunk_starts,  \* chunk_starts of backfill_coin
    any_success,   \* any_success of backfill_coin
    total_points_written, \* total_points_written of backfill_coin
    stats,         \* self.stats
    results,       \* return values of backfill_coin, one per finished coin
    callLog,       \* the fetch calls of this run, in order
    buffer,        \* the writer's buffer of accepted points
    influx,        \* the rows of the store: a bag of points
    bfaults,       \* chunk faults injected so far (bounded by MaxChunkFaults)
    count1,        \* number of rows in the store after the first run
    returned1,     \* the points the venues returned in the first run
    \* ---- one call of a fetch operation of a venue adapter ----
    fop,           \* the operation called
    fpc,           \* "call" | "fallback" | "returned"
    fgot,          \* pages received and parsed so far
    ffailed,       \* <<>>, or <<exception class, page>> of the failure
    fresult,       \* what the operation returned ("raised": it raised)
    \* ---- one call of a paginated fetch loop of a venue adapter ----
    padapter,      \* the loop that runs (an element of PagedFetches)
    start_timestamp, \* start of the requested window
    end_timestamp, \* end of the requested window
    ppc,           \* "call" | "loop" | "done"
    cursor,        \* current_end of a backward loop, current_start of a forward one
    all_data,      \* all_data: the rows received so far, in arrival order
    requests,      \* requests issued by this call
    last_page,     \* the answer to the last request
    page_df,       \* the frame the call returned
    \* ---- one InfluxDBWriter and the calls made on it ----
    batch_size,    \* batch_size of the constructor
    wbuffer,       \* the accepted points not written yet
    persisted,     \* the rows of the store: a bag of points
    closed,        \* close() was called
    wops,          \* calls made on the open writer (bounded by MaxOps)
    last_call,     \* the last call: operation, frame, points accepted, return
                   \* value or error, size of the buffer before the call
    waccepted,     \* every point write_market_data accepted, in order
    wsent,         \* every point sent to the store in a physical write, in order
    \* ---- the funding-period cache of one writer ----
    period_cache,  \* writer.period_cache: key -> period
    set_log,       \* per (symbol, exchange) pair: the last period set for it
    cache_call,    \* the last call: set or get, its pair, what get returned
    \* ---- the entry point of a collection run (main of backfill.py, data_collector.py) ----
    program,       \* "backfill" | "data_collector": the script that was started
    coins_file,    \* state of the coins file on disk
    listed,        \* entries in the coins file
    epc,           \* position of main and run
    ecoin,         \* index of the coin the loop of run is at
    in_buffer,     \* points accepted by the writer and still in its buffer
    in_store,      \* points the writer sent to the store
    n_accepted,    \* points the writer accepted in this run
    exit_code,     \* <<>> while the process runs, <<exit code>> after
    ended_by,       \* what ended the process
    writer_calls,  \* the calls run made on the writer, in order
    \* ---- one line of the asset list, parsed and dispatched ----
    listing,       \* what the line lists: symbol, venues, data types
    asset_line,    \* the line of the asset list, as text
    apc,           \* "line" | "skipped" | "loaded" | "dispatched"
    asset_config,  \* what parse_asset_line returned for the line
    coin_entry,    \* what load_coins of backfill.py made of the line
    blocks_entered, \* venue blocks backfill_coin enters for coin_entry
    \* ---- one call of fetch_historical_kline with a resolution ----
    kadapter,      \* the adapter whose fetch_historical_kline is called
    resolution,    \* the resolution argument: integer minutes or a string
    kpc,           \* position of the call
    interval,      \* the interval string derived from the resolution
    kraised,       \* the conversion raised
    krequests,      \* requests sent to the venue by this call
    \* ---- one call of BitunixKline.fetch_funding_rate_period ----
    api,           \* what the settings API of Bitunix does
    store_fails,   \* the connection to the store or the query raises
    history,       \* the stored funding-rate points the query returns
    qpc,           \* "api" | "fallback" | "returned"
    period_record,  \* <<>>, or <<the record the call returned>>
    \* ---- the windows of backfill_coin ----
    gtotal,        \* timedelta(days=total_days), in microseconds
    gsize,         \* chunk_size_days, in half microseconds
    gpc,           \* position in backfill_coin
    gcurrent,      \* current_date of the while loop
    gstarts,       \* chunk_starts, at the precision of datetime
    gwindows,       \* the (chunk_start, chunk_end) pairs of a venue block
    \* ---- forward paging against a venue that holds records ----
    vfetch,        \* the fetch: bybit_funding or binance_kline
    venue_records, \* timestamps of the records the venue holds
    vstart,        \* start_time of the call
    vend,          \* end_time of the call
    vpc,           \* position in the fetch
    current_start, \* current_start of the while loop
    vall,          \* all_data of the fetch
    vrequests,     \* the requests sent: startTime and the page received
    vframe,         \* the frame returned, as its column of times
    \* ---- one run of cleanup_duplicates ----
    cstore,        \* the points of the store cleanup_duplicates runs on
    cpc,           \* position in cleanup_duplicates
    cpairs,        \* migrated_pairs
    cidx           \* index of the pair of the delete loop

symVars == <<sym_in, sym_out>>
migVars == <<mpc, mode, run, mstore, plan, idx, selected, copied, response,
             entryState, storeAtStart, nWrites, nDeletes, run1Clean, flagged,
             deleteIssued, faults>>

backVars == <<coins, total_days, chunk_size_days, shift, bpc, brun, coin,
              venue, chunk, chunk_starts, any_success, total_points_written,
              stats, results, callLog, buffer, influx, bfaults, count1,
              returned1>>

fetchVars == <<fop, fpc, fgot, ffailed, fresult>>

pageVars == <<padapter, start_timestamp, end_timestamp, ppc, cursor, all_data,
              requests, last_page, page_df>>

\* the variables each component leaves alone
writerVars == <<batch_size, wbuffer, persisted, closed, wops, last_call,
                waccepted, wsent>>

cacheVars == <<period_cache, set_log, cache_call>>

entryVars == <<program, coins_file, listed, epc, ecoin, in_buffer, in_store,
               n_accepted, exit_code, ended_by,
              writer_calls>>

assetVars == <<listing, asset_line, apc, asset_config, coin_entry, blocks_entered>>

resVars == <<kadapter, resolution, kpc, interval, kraised, krequests>>

periodVars == <<api, store_fails, history, qpc, period_record>>

chunksVars == <<gtotal, gsize, gpc, gcurrent, gstarts, gwindows>>

venueVars == <<vfetch, venue_records, vstart, vend, vpc, current_start, vall, vrequests, vframe>>

cleanupVars == <<cstore, cpc, cpairs, cidx>>

nonMigVars == <<symVars, backVars, fetchVars, pageVars, writerVars, cacheVars,
    entryVars,
    assetVars,
    resVars,
    periodVars,
    chunksVars,
    venueVars,
    cleanupVars>>
nonBackVars == <<symVars, migVars, fetchVars, pageVars, writerVars, cacheVars,
    entryVars,
    assetVars,
    resVars,
    periodVars,
    chunksVars,
    venueVars,
    cleanupVars>>
nonSymVars == <<migVars, backVars, fetchVars, pageVars, writerVars, cacheVars,
    entryVars,
    assetVars,
    resVars,
    periodVars,
    chunksVars,
    venueVars,
    cleanupVars>>
nonFetchVars == <<symVars, migVars, backVars, pageVars, writerVars, cacheVars,
    entryVars,
    assetVars,
    resVars,
    periodVars,
    chunksVars,
    venueVars,
    cleanupVars>>
nonPageVars == <<symVars, migVars, backVars, fetchVars, writerVars, cacheVars,
    entryVars,
    assetVars,
    resVars,
    periodVars,
    chunksVars,
    venueVars,
    cleanupVars>>
nonWriterVars == <<symVars, migVars, backVars, fetchVars, pageVars, cacheVars,
    entryVars,
    assetVars,
    resVars,
    periodVars,
    chunksVars,
    venueVars,
    cleanupVars>>
nonCacheVars == <<symVars, migVars, backVars, fetchVars, pageVars, writerVars,
    entryVars,
    assetVars,
    resVars,
    periodVars,
    chunksVars,
    venueVars,
    cleanupVars>>
nonEntryVars == <<symVars, migVars, backVars, fetchVars, pageVars, writerVars, cacheVars,
    assetVars,
    resVars,
    periodVars,
    chunksVars,
    venueVars,
    cleanupVars>>
nonAssetVars == <<symVars, migVars, backVars, fetchVars, pageVars, writerVars, cacheVars, entryVars,
    resVars,
    periodVars,
    chunksVars,
    venueVars,
    cleanupVars>>
nonResVars == <<symVars, migVars, backVars, fetchVars, pageVars, writerVars, cacheVars, entryVars, assetVars,
    periodVars,
    chunksVars,
    venueVars,
    cleanupVars>>
nonPeriodVars == <<symVars, migVars, backVars, fetchVars, pageVars, writerVars, cacheVars, entryVars, assetVars, resVars,
    chunksVars,
    venueVars,
    cleanupVars>>
nonChunksVars == <<symVars, migVars, backVars, fetchVars, pageVars, writerVars, cacheVars, entryVars, assetVars, resVars, periodVars,
    venueVars,
    cleanupVars>>
nonVenueVars == <<symVars, migVars, backVars, fetchVars, pageVars, writerVars, cacheVars, entryVars, assetVars, resVars, periodVars, chunksVars,
    cleanupVars>>
nonCleanupVars == <<symVars, migVars, backVars, fetchVars, pageVars, writerVars, cacheVars, entryVars, assetVars, resVars, periodVars, chunksVars, venueVars>>

(***************************************************************************)
(* Python str operations on character sequences.                           *)
(***************************************************************************)
LowerLetters == <<"a","b","c","d","e","f","g","h","i","j","k","l","m",
                  "n","o","p","q","r","s","t","u","v","w","x","y","z">>
UpperLetters == <<"A","B","C","D","E","F","G","H","I","J","K","L","M",
                  "N","O","P","Q","R","S","T","U","V","W","X","Y","Z">>

UpperChar(c) ==
    IF \E i \in 1..26 : LowerLetters[i] = c
    THEN UpperLetters[CHOOSE i \in 1..26 : LowerLetters[i] = c]
    ELSE c

LowerChar(c) ==
    IF \E i \in 1..26 : UpperLetters[i] = c
    THEN LowerLetters[CHOOSE i \in 1..26 : UpperLetters[i] = c]
    ELSE c

\* str.upper() and str.lower()
Upper(s) == [i \in 1..Len(s) |-> UpperChar(s[i])]
Lower(s) == [i \in 1..Len(s) |-> LowerChar(s[i])]

\* pat occurs in s starting at position i
MatchAt(s, pat, i) ==
    /\ i >= 1
    /\ i + Len(pat) - 1 <= Len(s)
    /\ SubSeq(s, i, i + Len(pat) - 1) = pat

\* `pat in s` for a non-empty pat
Contains(s, pat) == \E i \in 1..Len(s) : MatchAt(s, pat, i)

\* s.endswith(suf)
EndsWith(s, suf) == MatchAt(s, suf, Len(s) - Len(suf) + 1)

\* s.replace(pat, rep): every non-overlapping occurrence, left to right
RECURSIVE ReplaceFrom(_, _, _, _)
ReplaceFrom(s, pat, rep, i) ==
    IF i > Len(s) THEN <<>>
    ELSE IF MatchAt(s, pat, i)
         THEN rep \o ReplaceFrom(s, pat, rep, i + Len(pat))
         ELSE <<s[i]>> \o ReplaceFrom(s, pat, rep, i + 1)

Replace(s, pat, rep) == ReplaceFrom(s, pat, rep, 1)

(***************************************************************************)
(* String literals of the code.                                            *)
(***************************************************************************)
sUSDT     == <<"U","S","D","T">>
sUSDC     == <<"U","S","D","C">>
sUSD      == <<"U","S","D">>
sDVOL     == <<"_","D","V","O","L">>
sBYBIT    == <<"_","B","Y","B","I","T">>
sYFIN     == <<"_","Y","F","I","N","A","N","C","E">>
sYFINANCE == <<"Y","F","I","N","A","N","C","E">>
s_yfinance == <<"y","f","i","n","a","n","c","e">>
s_yahoo   == <<"y","a","h","o","o">>
s_deribit == <<"d","e","r","i","b","i","t">>
s_yes     == <<"y","e","s">>
sUnderscore == <<"_">>
sSpace    == <<" ">>

(***************************************************************************)
(* calculate_new_symbol                                                    *)
(***************************************************************************)
\* the DVOL branch: the three chained str.replace calls
BaseCurrency(old_symbol) ==
    Replace(Replace(Replace(old_symbol, sUSDT, <<>>), sUSDC, <<>>), sUSD, <<>>)

\* the price branch: exchange.upper().replace(' ', ''), YFINANCE for Yahoo names
ExchangeSuffix(exchange) ==
    IF Contains(Lower(exchange), s_yfinance) \/ Contains(Lower(exchange), s_yahoo)
    THEN sYFINANCE
    ELSE Replace(Upper(exchange), sSpace, <<>>)

calculate_new_symbol(old_symbol, exchange, data_type) ==
    IF Lower(exchange) = s_deribit /\ data_type = "dvol"
    THEN BaseCurrency(old_symbol) \o sDVOL
    ELSE old_symbol \o sUnderscore \o ExchangeSuffix(exchange)

\* migrate_data's "already in new format" test
AlreadyMigrated(old_symbol) ==
    /\ Contains(old_symbol, sUnderscore)
    /\ \/ EndsWith(old_symbol, sBYBIT)
       \/ EndsWith(old_symbol, sYFIN)
       \/ EndsWith(old_symbol, sDVOL)

(***************************************************************************)
(* Bounds of the model.                                                    *)
(***************************************************************************)
\* points per series in the initial store
MaxPoints == 2
\* BATCH_SIZE of _migrate_single_symbol (5000 in the code), scaled down so
\* that a series of MaxPoints points needs more than one write_points call
CopyBatchSize == 1
\* store requests (SELECT, write_points, DELETE) that may fail, over both
\* invocations of the migration tool
MaxFaults == 1

(***************************************************************************)
(* The store: InfluxDB measurement market_data.  A point is a record       *)
(* [symbol, exchange, data_type, period, time, val]; the first four are    *)
(* its tags ("none": the tag is absent), val stands for its five fields.   *)
(***************************************************************************)
sBTC    == <<"B","T","C">>
sETH    == <<"E","T","H">>
sBTCUSDT == sBTC \o sUSDT
sETHUSDT == sETH \o sUSDT
sBTCUSDC == sBTC \o sUSDC
sBybit   == <<"B","y","b","i","t">>
sDeribit == <<"D","e","r","i","b","i","t">>
sBitunix == <<"B","i","t","u","n","i","x">>

\* ASCII order of the characters used in tag values
Alphabet == <<" ">> \o UpperLetters \o <<"_">> \o LowerLetters
CharRank(c) == CHOOSE i \in 1..Len(Alphabet) : Alphabet[i] = c

\* s < t in the lexicographic order InfluxDB lists tag values in
RECURSIVE LexLess(_, _)
LexLess(s, t) ==
    IF t = <<>> THEN FALSE
    ELSE IF s = <<>> THEN TRUE
    ELSE IF s[1] = t[1] THEN LexLess(Tail(s), Tail(t))
    ELSE CharRank(s[1]) < CharRank(t[1])

\* the elements of a finite set of strings, in lexicographic order
RECURSIVE SortedStrings(_)
SortedStrings(S) ==
    IF S = {} THEN <<>>
    ELSE LET m == CHOOSE x \in S : \A y \in S \ {x} : LexLess(x, y)
         IN  <<m>> \o SortedStrings(S \ {m})

\* data_type tag values in lexicographic order
DataTypeOrder == <<"dvol", "funding_rate", "kline">>

\* SHOW TAG VALUES FROM "market_data" WITH KEY = ...
TagSymbols(store)   == SortedStrings({p.symbol : p \in store})
TagExchanges(store) == SortedStrings({p.exchange : p \in store})
TagDataTypes(store) ==
    SelectSeq(DataTypeOrder, LAMBDA d : \E p \in store : p.data_type = d)

\* ... WHERE symbol = s AND exchange = e AND data_type = d
Matching(store, s, e, d) ==
    {p \in store : p.symbol = s /\ p.exchange = e /\ p.data_type = d}

\* two points of the same series (same tag set) at the same timestamp
SameSeriesTime(p, q) ==
    /\ p.symbol = q.symbol /\ p.exchange = q.exchange
    /\ p.data_type = q.data_type /\ p.period = q.period
    /\ p.time = q.time

\* InfluxDB write: a point replaces the point of its series at its timestamp
StoreWrite(store, pts) ==
    {q \in store : \A p \in pts : ~SameSeriesTime(p, q)} \cup pts

\* DELETE FROM "market_data" WHERE symbol = s AND exchange = e AND data_type = d
StoreDelete(store, s, e, d) == store \ Matching(store, s, e, d)

\* the rows of a SELECT, by increasing time (rows of equal time: by period)
RECURSIVE RowsByTime(_)
RowsByTime(S) ==
    IF S = {} THEN <<>>
    ELSE LET m == CHOOSE x \in S : \A y \in S \ {x} :
                    \/ x.time < y.time
                    \/ x.time = y.time /\ x.period # y.period
                       /\ (x.period = "none" \/ y.period # "none")
         IN  <<m>> \o RowsByTime(S \ {m})

(***************************************************************************)
(* get_symbol_exchange_pairs and the plan of migrate_data                  *)
(***************************************************************************)
\* the nested loops over symbols, exchanges and data types: the
\* combinations, in loop order, that the COUNT probe finds to exist
RECURSIVE ProbeLoop(_, _, _, _, _, _, _)
ProbeLoop(store, syms, exs, dts, i, j, k) ==
    IF i > Len(syms) THEN <<>>
    ELSE IF j > Len(exs) THEN ProbeLoop(store, syms, exs, dts, i + 1, 1, 1)
    ELSE IF k > Len(dts) THEN ProbeLoop(store, syms, exs, dts, i, j + 1, 1)
    ELSE (IF Matching(store, syms[i], exs[j], dts[k]) # {}
          THEN << [old_symbol |-> syms[i], exchange |-> exs[j],
                   data_type |-> dts[k]] >>
          ELSE <<>>)
         \o ProbeLoop(store, syms, exs, dts, i, j, k + 1)

\* a plan of every combination of the tag values, probed or not
EveryCombination(store) ==
    ProbeLoop({ [symbol |-> s, exchange |-> e, data_type |-> d,
                 period |-> "none", time |-> 1, val |-> 1] :
                  s \in {p.symbol : p \in store},
                  e \in {p.exchange : p \in store},
                  d \in {p.data_type : p \in store} },
              TagSymbols(store), TagExchanges(store), TagDataTypes(store),
              1, 1, 1)

get_symbol_exchange_pairs(store) ==
    ProbeLoop(store, TagSymbols(store), TagExchanges(store),
              TagDataTypes(store), 1, 1, 1)

\* lines 136-156: one plan entry per pair not already in the new format
RECURSIVE PlanOf(_)
PlanOf(pairs) ==
    IF pairs = <<>> THEN <<>>
    ELSE LET pair == Head(pairs)
         IN  (IF AlreadyMigrated(pair.old_symbol)
              THEN <<>>
              ELSE << [old_symbol |-> pair.old_symbol,
                       new_symbol |-> calculate_new_symbol(pair.old_symbol,
                                          pair.exchange, pair.data_type),
                       exchange   |-> pair.exchange,
                       data_type  |-> pair.data_type] >>)
             \o PlanOf(Tail(pairs))

MigrationPlan(store) == PlanOf(get_symbol_exchange_pairs(store))

(***************************************************************************)
(* The migration tool as a process: main, migrate_data,                    *)
(* _migrate_single_symbol and verify_migration.                            *)
(***************************************************************************)
Modes == {"migrate", "dry-run", "verify"}

\* answers the operator may type at the prompt
Responses == { s_yes, <<"Y","E","S">>, <<"n","o">>, <<"y","e","s"," ">>, <<>> }

\* series the initial store may hold: those the collectors of this
\* repository write (flat symbol, the exchange and data_type they pass, no
\* period handed to the writer) and a funding_rate series written with its
\* period tag
InitialSeries ==
    { [symbol |-> sBTCUSDT, exchange |-> sBybit,   data_type |-> "kline",
       period |-> "none"],
      [symbol |-> sBTCUSDT, exchange |-> sDeribit, data_type |-> "dvol",
       period |-> "none"],
      [symbol |-> sBTCUSDC, exchange |-> sDeribit, data_type |-> "dvol",
       period |-> "none"],
      [symbol |-> sETHUSDT, exchange |-> sBitunix, data_type |-> "kline",
       period |-> "none"],
      [symbol |-> sBTCUSDT, exchange |-> sBybit,   data_type |-> "funding_rate",
       period |-> "8"] }

PointsOf(series) ==
    { [symbol |-> ser.symbol, exchange |-> ser.exchange,
       data_type |-> ser.data_type, period |-> ser.period,
       time |-> t, val |-> t] : ser \in series, t \in 1..MaxPoints }

\* main, lines 304-310: --verify skips migrate_data
MainRunsMigrate(m) == m # "verify"

\* a tool that ignores the dry_run flag after printing the plan
DryRunIgnored(m) == FALSE

\* a tool that proceeds whatever the operator answered
AnyResponseProceeds(r) == TRUE

\* migrate_data, lines 171-174: --dry-run returns before the prompt
DryRunReturns(m) == m = "dry-run"

\* migrate_data, line 178: response.lower() != 'yes' cancels
Confirmed(r) == Lower(r) = s_yes

\* the copy of one selected row: lines 226-241 (no period tag is written)
NewPoint(entry, point) ==
    [symbol |-> entry.new_symbol, exchange |-> entry.exchange,
     data_type |-> entry.data_type, period |-> "none",
     time |-> point.time, val |-> point.val]

\* points[i:i + BATCH_SIZE] for i = done (0-based)
Batch(points, done) ==
    SubSeq(points, done + 1,
           IF done + CopyBatchSize < Len(points) THEN done + CopyBatchSize
                                                 ELSE Len(points))

SeqRange(q) == {q[i] : i \in 1..Len(q)}

\* verify_migration, line 272
OldFormat(store) ==
    {s \in {p.symbol : p \in store} : ~Contains(s, sUnderscore)}

MigInit ==
    /\ mpc = "start"
    /\ mode \in Modes
    /\ run = 1
    /\ mstore \in {PointsOf(ser) : ser \in SUBSET InitialSeries}
    /\ plan = <<>>
    /\ idx = 0
    /\ selected = <<>>
    /\ copied = 0
    /\ response = <<>>
    /\ entryState = <<>>
    /\ storeAtStart = mstore
    /\ nWrites = 0
    /\ nDeletes = 0
    /\ run1Clean = FALSE
    /\ flagged = {}
    /\ deleteIssued = {}
    /\ faults = 0

\* main with --verify: verify_migration only
MainVerifyOnly ==
    /\ mpc = "start"
    /\ ~MainRunsMigrate(mode)
    /\ mpc' = "verify"
    /\ UNCHANGED <<mode, run, mstore, plan, idx, selected, copied, response,
                   entryState, storeAtStart, nWrites, nDeletes, run1Clean, flagged>>
    /\ UNCHANGED <<deleteIssued, faults, nonMigVars>>


\* migrate_data up to the prompt: lines 130-174
BuildPlan ==
    /\ mpc = "start"
    /\ MainRunsMigrate(mode)
    /\ LET new_plan == MigrationPlan(mstore)
       IN  /\ plan' = new_plan
           /\ entryState' = [i \in 1..Len(new_plan) |-> "PENDING"]
           /\ mpc' = IF new_plan = <<>> \/ DryRunReturns(mode)
                     THEN "verify" ELSE "prompt"
    /\ UNCHANGED <<mode, run, mstore, idx, selected, copied, response,
                   storeAtStart, nWrites, nDeletes, run1Clean, flagged>>
    /\ UNCHANGED <<deleteIssued, faults, nonMigVars>>


\* the confirmation prompt: lines 177-180
Prompt ==
    /\ mpc = "prompt"
    /\ \E r \in Responses :
         /\ response' = r
         /\ IF Confirmed(r)
            THEN mpc' = "select" /\ idx' = 1
            ELSE mpc' = "verify" /\ idx' = idx
    /\ UNCHANGED <<mode, run, mstore, plan, selected, copied, entryState,
                   storeAtStart, nWrites, nDeletes, run1Clean, flagged>>
    /\ UNCHANGED <<deleteIssued, faults, nonMigVars>>


\* a loop that ends after the entry it is at
StopAfterEntry(i) == "verify"

\* the loop of lines 183-188 moves to the next entry, or ends
LoopNext(i) == IF i < Len(plan) THEN "select" ELSE "verify"

\* _migrate_single_symbol, lines 202-212: the SELECT of the entry
SelectPoints ==
    /\ mpc = "select"
    /\ LET entry == plan[idx]
           rows  == RowsByTime(Matching(mstore, entry.old_symbol,
                                        entry.exchange, entry.data_type))
       IN  IF rows = <<>>
           THEN /\ mpc' = LoopNext(idx)
                /\ idx' = idx + 1
                /\ selected' = <<>>
           ELSE /\ mpc' = "copy"
                /\ idx' = idx
                /\ selected' = rows
    /\ copied' = 0
    /\ UNCHANGED <<mode, run, mstore, plan, response, entryState,
                   storeAtStart, nWrites, nDeletes, run1Clean, flagged>>
    /\ UNCHANGED <<deleteIssued, faults, nonMigVars>>


\* the SELECT raises: caught at line 186, the loop continues
SelectRaises ==
    /\ faults < MaxFaults
    /\ faults' = faults + 1
    /\ mpc = "select"
    /\ entryState' = [entryState EXCEPT ![idx] = "FAILED"]
    /\ mpc' = LoopNext(idx)
    /\ idx' = idx + 1
    /\ selected' = <<>>
    /\ copied' = 0
    /\ UNCHANGED <<mode, run, mstore, plan, response,
                   storeAtStart, nWrites, nDeletes, run1Clean, flagged>>
    /\ UNCHANGED <<deleteIssued, nonMigVars>>


\* position after a batch was written: the DELETE once every batch is done
AfterBatch(done, total) == IF done >= total THEN "delete" ELSE "copy"

\* one iteration of the batch loop, lines 220-249: write_points succeeds
CopyBatch ==
    /\ mpc = "copy"
    /\ LET batch == Batch(selected, copied)
           new_points == {NewPoint(plan[idx], batch[i]) : i \in 1..Len(batch)}
       IN  /\ mstore' = StoreWrite(mstore, new_points)
           /\ copied' = copied + Len(batch)
           /\ mpc' = AfterBatch(copied + Len(batch), Len(selected))
           /\ entryState' = IF AfterBatch(copied + Len(batch), Len(selected)) = "delete"
                            THEN [entryState EXCEPT ![idx] = "COPIED"]
                            ELSE entryState
    /\ nWrites' = nWrites + 1
    /\ UNCHANGED <<mode, run, plan, idx, selected, response,
                   storeAtStart, nDeletes, run1Clean, flagged>>
    /\ UNCHANGED <<deleteIssued, faults, nonMigVars>>


\* position after write_points raised: the exception leaves
\* _migrate_single_symbol, line 186 catches it, the loop continues
AfterCopyError(i) == LoopNext(i)

\* write_points raises; the store may or may not have applied the batch
CopyRaises ==
    /\ faults < MaxFaults
    /\ faults' = faults + 1
    /\ mpc = "copy"
    /\ LET batch == Batch(selected, copied)
           new_points == {NewPoint(plan[idx], batch[i]) : i \in 1..Len(batch)}
       IN  \E applied \in BOOLEAN :
             mstore' = IF applied THEN StoreWrite(mstore, new_points) ELSE mstore
    /\ nWrites' = nWrites + 1
    /\ entryState' = [entryState EXCEPT ![idx] = "FAILED"]
    /\ mpc' = AfterCopyError(idx)
    /\ idx' = IF AfterCopyError(idx) = "delete" THEN idx ELSE idx + 1
    /\ selected' = IF AfterCopyError(idx) = "delete" THEN selected ELSE <<>>
    /\ copied' = IF AfterCopyError(idx) = "delete" THEN copied ELSE 0
    /\ UNCHANGED <<mode, run, plan, response,
                   storeAtStart, nDeletes, run1Clean, flagged>>
    /\ UNCHANGED <<deleteIssued, nonMigVars>>


\* lines 254-259: the DELETE of the old-tagged points succeeds
DeleteOld ==
    /\ mpc = "delete"
    /\ LET entry == plan[idx]
       IN  mstore' = StoreDelete(mstore, entry.old_symbol, entry.exchange,
                                 entry.data_type)
    /\ nDeletes' = nDeletes + 1
    /\ deleteIssued' = deleteIssued \cup {idx}
    /\ entryState' = [entryState EXCEPT
                        ![idx] = IF @ = "COPIED" THEN "DELETED" ELSE @]
    /\ mpc' = LoopNext(idx)
    /\ idx' = idx + 1
    /\ selected' = <<>>
    /\ copied' = 0
    /\ UNCHANGED <<mode, run, plan, response,
                   storeAtStart, nWrites, run1Clean, flagged>>
    /\ UNCHANGED <<faults, nonMigVars>>


\* the DELETE raises: the entry stays copied and not deleted
DeleteRaises ==
    /\ faults < MaxFaults
    /\ faults' = faults + 1
    /\ mpc = "delete"
    /\ nDeletes' = nDeletes + 1
    /\ deleteIssued' = deleteIssued \cup {idx}
    /\ entryState' = [entryState EXCEPT
                        ![idx] = IF @ = "COPIED" THEN "PARTIAL" ELSE @]
    /\ mpc' = LoopNext(idx)
    /\ idx' = idx + 1
    /\ selected' = <<>>
    /\ copied' = 0
    /\ UNCHANGED <<mode, run, mstore, plan, response,
                   storeAtStart, nWrites, run1Clean, flagged>>
    /\ UNCHANGED nonMigVars


\* every entry of the plan reached DELETED after the operator confirmed
AllMigrated ==
    /\ mode = "migrate"
    /\ plan # <<>>
    /\ \A i \in 1..Len(plan) : entryState[i] = "DELETED"

\* verify_migration and close: lines 261-283, 311-313
VerifyMigration ==
    /\ mpc = "verify"
    /\ flagged' = OldFormat(mstore)
    /\ run1Clean' = IF run = 1 THEN AllMigrated ELSE run1Clean
    /\ mpc' = "done"
    /\ UNCHANGED <<mode, run, mstore, plan, idx, selected, copied, response,
                   entryState, storeAtStart, nWrites, nDeletes>>
    /\ UNCHANGED <<deleteIssued, faults, nonMigVars>>


\* the operator invokes the tool a second time on the same store
Rerun ==
    /\ mpc = "done"
    /\ run = 1
    /\ run' = 2
    /\ mode' \in Modes
    /\ mpc' = "start"
    /\ plan' = <<>>
    /\ idx' = 0
    /\ selected' = <<>>
    /\ copied' = 0
    /\ response' = <<>>
    /\ entryState' = <<>>
    /\ storeAtStart' = mstore
    /\ nWrites' = 0
    /\ nDeletes' = 0
    /\ flagged' = {}
    /\ deleteIssued' = {}
    /\ UNCHANGED <<mstore, run1Clean>>
    /\ UNCHANGED <<faults, nonMigVars>>

MigNext ==
    \/ MainVerifyOnly
    \/ BuildPlan
    \/ Prompt
    \/ SelectPoints
    \/ SelectRaises
    \/ CopyBatch
    \/ CopyRaises
    \/ DeleteOld
    \/ DeleteRaises
    \/ VerifyMigration
    \/ Rerun

(***************************************************************************)
(* The historical backfill: HistoricalBackfill.run and backfill_coin of    *)
(* backfill.py.  Time is counted in whole days from the start_date of the  *)
(* first run; datetime.now() is read once per run.                         *)
(***************************************************************************)
\* largest TOTAL_DAYS drawn (90 in BACKFILL_CONFIG)
MaxTotalDays == 3
\* chunks of a pair of runs whose fetch fails, is empty or is all-invalid
MaxChunkFaults == 2
\* BATCH_SIZE of BACKFILL_CONFIG (500), scaled down so that the buffer
\* fills up within a run
WriterBatchSize == 3
\* the venue has one candle every CandleEvery days
CandleEvery == 2
\* CHUNK_SIZE_DAYS values drawn
ChunkSizes == {1, 2}
\* days between the first run and the second
Shifts == {0, 1}

\* what load_coins returns: (symbol, exchanges) per line of the coins file
CoinsFiles ==
    { << [symbol |-> "BTCUSDT", exchanges |-> {"bybit", "yfinance"}],
         [symbol |-> "AAPL",    exchanges |-> {"yfinance"}] >>,
      << [symbol |-> "ETHUSDT", exchanges |-> {"bitunix", "deribit", "binance"}] >>,
      << [symbol |-> "AAPL",    exchanges |-> {"bybit", "yfinance"}],
         [symbol |-> "SOLUSDT", exchanges |-> {"deribit"}] >> }

\* the four venue blocks of backfill_coin, in the order of the code, with
\* the exchange tag and the data_type each passes to write_market_data
VenueBlocks ==
    << [venue |-> "bybit",    exchange |-> "Bybit",    data_type |-> "kline"],
       [venue |-> "yfinance", exchange |-> "YFinance", data_type |-> "kline"],
       [venue |-> "bitunix",  exchange |-> "Bitunix",  data_type |-> "kline"],
       [venue |-> "deribit",  exchange |-> "Deribit",  data_type |-> "kline"] >>

\* the two writes of fetch_and_store_coin of the collector, with the
\* exchange tag and the data_type each passes to write_market_data
CollectorWrites ==
    << [venue |-> "bybit",   exchange |-> "Bybit",   data_type |-> "kline"],
       [venue |-> "deribit", exchange |-> "Deribit", data_type |-> "dvol"] >>

yfinance_supported == {"BTCUSDT", "ETHUSDT", "XRPUSDT", "SOLUSDT"}

\* the if that guards venue block v
BlockEnabled(v, symbol, exchanges) ==
    /\ VenueBlocks[v].venue \in exchanges
    /\ VenueBlocks[v].venue = "yfinance" => symbol \in yfinance_supported

\* end_date and start_date of a run
end_date == total_days + (brun - 1) * shift
start_date == end_date - total_days

\* the while loop that generates chunk_starts
RECURSIVE GenChunks(_, _, _)
GenChunks(current_date, end, size) ==
    IF current_date < end
    THEN <<current_date>> \o GenChunks(current_date + size, end, size)
    ELSE <<>>

\* chunk_end, clipped to end_date
ChunkEnd(chunk_start) ==
    IF chunk_start + chunk_size_days > end_date
    THEN end_date
    ELSE chunk_start + chunk_size_days

\* the first enabled venue block after block v (Len(VenueBlocks) + 1: none);
\* a block whose chunk loop has nothing to iterate over is passed as well
NextBlock(v) ==
    LET later == { w \in (v + 1)..Len(VenueBlocks) :
                     /\ BlockEnabled(w, coins[coin].symbol, coins[coin].exchanges)
                     /\ chunk_starts # <<>> }
    IN  IF later = {} THEN Len(VenueBlocks) + 1
        ELSE CHOOSE w \in later : \A x \in later : w <= x

\* the position <<block, chunk>> after iteration k of the chunk loop of block v
AfterChunk(v, k) ==
    IF k < Len(chunk_starts) THEN <<v, k + 1>> ELSE <<NextBlock(v), 1>>

\* a chunk error that ends the chunk loop of the venue
BreakOnChunkError(v, k) == <<NextBlock(v), 1>>

\* an empty result that ends backfill_coin
ReturnOnEmptyResult(v, k) == <<Len(VenueBlocks) + 1, 1>>

\* except Exception ... continue (lines 310-312 and the three like them)
OnChunkError(v, k) == AfterChunk(v, k)

\* the else branch of `if not df.empty` (lines 307-308): log, next chunk
OnEmptyResult(v, k) == AfterChunk(v, k)

\* success as soon as a non-empty frame was handed to the writer
AnySuccessOnAnyFrame(prev, valid_points) == TRUE

\* lines 303-305: any_success is set when the writer accepted a point
AnySuccessAfterWrite(prev, valid_points) == prev \/ valid_points > 0

\* the rows a venue returns for the window [a, b]: its candles from a to b,
\* both ends included, oldest first
VenueCandles(a, b) ==
    LET times == [i \in 1..(b - a + 1) |-> a + i - 1]
    IN  [i \in 1..Len(SelectSeq(times, LAMBDA t : t % CandleEvery = 1)) |->
            [time  |-> SelectSeq(times, LAMBDA t : t % CandleEvery = 1)[i],
             val   |-> SelectSeq(times, LAMBDA t : t % CandleEvery = 1)[i],
             valid |-> TRUE]]

\* the same rows with a non-finite field in each
Invalidate(df) == [i \in 1..Len(df) |-> [df[i] EXCEPT !.valid = FALSE]]

(***************************************************************************)
(* The writer (modules/influx_writer.py) and the store behind it.          *)
(***************************************************************************)
\* a writer that validates nothing
KeepAllRows(df) == df

\* a writer that keeps every row of a batch
KeepEveryRow(rows) == rows

\* validation: rows with a missing or non-finite field are dropped
ValidRows(df) == SelectSeq(df, LAMBDA r : r.valid)

\* rows of one incoming batch with the same timestamp: the last one is kept
DedupKeepLast(rows) ==
    LET keep == { i \in 1..Len(rows) :
                    \A j \in (i + 1)..Len(rows) : rows[j].time # rows[i].time }
        RECURSIVE Pick(_)
        Pick(i) == IF i > Len(rows) THEN <<>>
                   ELSE (IF i \in keep THEN <<rows[i]>> ELSE <<>>) \o Pick(i + 1)
    IN  Pick(1)

\* the points write_market_data accepts from df for one series
WriterPoints(df, symbol, exchange, data_type) ==
    LET rows == DedupKeepLast(ValidRows(df))
    IN  [i \in 1..Len(rows) |->
            [symbol |-> symbol, exchange |-> exchange, data_type |-> data_type,
             time |-> rows[i].time, val |-> rows[i].val]]

\* two rows of the same series at the same timestamp
SameKey(p, q) ==
    /\ p.symbol = q.symbol /\ p.exchange = q.exchange
    /\ p.data_type = q.data_type /\ p.time = q.time

\* a store that appends every point it is sent
AppendPoint(store, p) == store (+) SetToBag({p})

\* the store takes one point: it replaces the row of the same key
UpsertPoint(store, p) ==
    LET others == { r \in BagToSet(store) : ~SameKey(r, p) }
    IN  [r \in others |-> store[r]] (+) SetToBag({p})

\* one physical write of the buffered points, in buffer order
RECURSIVE PhysicalWrite(_, _)
PhysicalWrite(store, pts) ==
    IF pts = <<>> THEN store
    ELSE PhysicalWrite(UpsertPoint(store, Head(pts)), Tail(pts))

(***************************************************************************)
(* run and backfill_coin as a process.                                     *)
(***************************************************************************)
EmptyStats ==
    [total_coins |-> 0, successful_coins |-> 0, failed_coins |-> 0,
     total_points |-> 0, total_chunks |-> 0]

BackInit ==
    /\ coins \in CoinsFiles
    /\ total_days \in 1..MaxTotalDays
    /\ chunk_size_days \in ChunkSizes
    /\ shift \in Shifts
    /\ bpc = "coin"
    /\ brun = 1
    /\ coin = 1
    /\ venue = 0
    /\ chunk = 0
    /\ chunk_starts = <<>>
    /\ any_success = FALSE
    /\ total_points_written = 0
    /\ stats = [EmptyStats EXCEPT !.total_coins = Len(coins)]
    /\ results = <<>>
    /\ callLog = <<>>
    /\ buffer = <<>>
    /\ influx = EmptyBag
    /\ bfaults = 0
    /\ count1 = 0
    /\ returned1 = {}

\* move to position pos = <<block, chunk>>
Advance(pos) ==
    /\ venue' = pos[1]
    /\ chunk' = pos[2]
    /\ bpc' = IF pos[1] > Len(VenueBlocks) THEN "update_stats" ELSE "chunk"

\* the record of one fetch call
LogEntry(df, outcome, accepted) ==
    [coin |-> coin, venue |-> VenueBlocks[venue].venue, chunk |-> chunk,
     start |-> chunk_starts[chunk], end |-> ChunkEnd(chunk_starts[chunk]),
     df |-> df, outcome |-> outcome, accepted |-> accepted]

\* the ranks of the levels of the logging module
LogLevels == [DEBUG |-> 10, INFO |-> 20, WARNING |-> 30, ERROR |-> 40]

\* LOG_LEVEL of config.py: the default of SETTINGS
LOG_LEVEL == "INFO"

\* what one iteration of a chunk loop, lines 286-312, leaves behind for the
\* call e of the call log: the messages the logger keeps at LOG_LEVEL and
\* the points added to total_points_written
ChunkRecord(e) ==
    LET message ==
            IF e.outcome = "raised"
            THEN << [level |-> "WARNING", text |-> "Chunk error"] >>
            ELSE IF e.df = <<>>
            THEN << [level |-> "DEBUG", text |-> "No data returned"] >>
            ELSE IF e.accepted > 0
            THEN << [level |-> "DEBUG", text |-> "Wrote points"] >>
            ELSE <<>>
    IN  [log |-> SelectSeq(message,
                           LAMBDA x : LogLevels[x.level] >= LogLevels[LOG_LEVEL]),
         points |-> e.accepted]

\* backfill_coin, lines 255-272: the chunks of the range
StartCoin ==
    /\ bpc = "coin"
    /\ any_success' = FALSE
    /\ total_points_written' = 0
    /\ LET starts == GenChunks(start_date, end_date, chunk_size_days)
           first  == { w \in 1..Len(VenueBlocks) :
                         /\ BlockEnabled(w, coins[coin].symbol, coins[coin].exchanges)
                         /\ starts # <<>> }
       IN  /\ chunk_starts' = starts
           /\ stats' = [stats EXCEPT !.total_chunks = @ + Len(starts)]
           /\ Advance(<< IF first = {} THEN Len(VenueBlocks) + 1
                         ELSE CHOOSE w \in first : \A x \in first : w <= x, 1 >>)
    /\ UNCHANGED <<coins, total_days, chunk_size_days, shift, brun, coin,
                   results, callLog, buffer, influx, bfaults, count1, returned1>>
    /\ UNCHANGED nonBackVars

\* one iteration of a chunk loop in which the fetch returned the frame df:
\* lines 295-308 (Bybit) and the same lines of the other three blocks
HandleFrame(df) ==
    IF df # <<>>
    THEN LET pts == WriterPoints(df, coins[coin].symbol,
                                 VenueBlocks[venue].exchange,
                                 VenueBlocks[venue].data_type)
             valid_points == Len(pts)
             filled == buffer \o pts
         IN  /\ IF Len(filled) >= WriterBatchSize
                THEN influx' = PhysicalWrite(influx, filled) /\ buffer' = <<>>
                ELSE influx' = influx /\ buffer' = filled
             /\ any_success' = AnySuccessAfterWrite(any_success, valid_points)
             /\ total_points_written' =
                    IF valid_points > 0 THEN total_points_written + valid_points
                    ELSE total_points_written
             /\ callLog' = Append(callLog, LogEntry(df, "frame", valid_points))
             /\ Advance(AfterChunk(venue, chunk))
    ELSE /\ callLog' = Append(callLog, LogEntry(df, "empty", 0))
         /\ Advance(OnEmptyResult(venue, chunk))
         /\ UNCHANGED <<any_success, total_points_written, buffer, influx>>

\* the fetch returns the candles of the window
ChunkFetched ==
    /\ bpc = "chunk"
    /\ HandleFrame(VenueCandles(chunk_starts[chunk], ChunkEnd(chunk_starts[chunk])))
    /\ UNCHANGED <<coins, total_days, chunk_size_days, shift, brun, coin,
                   chunk_starts, stats, results, bfaults, count1, returned1>>
    /\ UNCHANGED nonBackVars

\* the adapter caught an error and returns an empty frame although the
\* venue has candles in the window
ChunkAdapterFailed ==
    /\ bpc = "chunk"
    /\ bfaults < MaxChunkFaults
    /\ bfaults' = bfaults + 1
    /\ VenueCandles(chunk_starts[chunk], ChunkEnd(chunk_starts[chunk])) # <<>>
    /\ HandleFrame(<<>>)
    /\ UNCHANGED <<coins, total_days, chunk_size_days, shift, brun, coin,
                   chunk_starts, stats, results, count1, returned1>>
    /\ UNCHANGED nonBackVars

\* the fetch returns rows none of which passes the writer's validation
ChunkInvalidRows ==
    /\ bpc = "chunk"
    /\ bfaults < MaxChunkFaults
    /\ bfaults' = bfaults + 1
    /\ VenueCandles(chunk_starts[chunk], ChunkEnd(chunk_starts[chunk])) # <<>>
    /\ HandleFrame(Invalidate(
           VenueCandles(chunk_starts[chunk], ChunkEnd(chunk_starts[chunk]))))
    /\ UNCHANGED <<coins, total_days, chunk_size_days, shift, brun, coin,
                   chunk_starts, stats, results, count1, returned1>>
    /\ UNCHANGED nonBackVars

\* the fetch (or the write that follows it) raises: except ... continue
ChunkRaises ==
    /\ bpc = "chunk"
    /\ bfaults < MaxChunkFaults
    /\ bfaults' = bfaults + 1
    /\ callLog' = Append(callLog, LogEntry(<<>>, "raised", 0))
    /\ Advance(OnChunkError(venue, chunk))
    /\ UNCHANGED <<coins, total_days, chunk_size_days, shift, brun, coin,
                   chunk_starts, any_success, total_points_written, stats,
                   results, buffer, influx, count1, returned1>>
    /\ UNCHANGED nonBackVars

\* counters in which a failed symbol is counted nowhere
CountSuccessOnly(st, success, points) ==
    IF success
    THEN [st EXCEPT !.successful_coins = @ + 1, !.total_points = @ + points]
    ELSE st

\* lines 471-478: the symbol is counted as succeeded or as failed
CountCoin(st, success, points) ==
    IF success
    THEN [st EXCEPT !.successful_coins = @ + 1, !.total_points = @ + points]
    ELSE [st EXCEPT !.failed_coins = @ + 1]

\* backfill_coin, lines 471-478, and the loop of run, lines 503-506
UpdateStats ==
    /\ bpc = "update_stats"
    /\ stats' = CountCoin(stats, any_success, total_points_written)
    /\ results' = Append(results, any_success)
    /\ coin' = coin + 1
    /\ bpc' = IF coin < Len(coins) THEN "coin" ELSE "flush"
    /\ UNCHANGED <<coins, total_days, chunk_size_days, shift, brun, venue,
                   chunk, chunk_starts, any_success, total_points_written,
                   callLog, buffer, influx, bfaults, count1, returned1>>
    /\ UNCHANGED nonBackVars

\* the points (series, time, value, validity) the venues returned in a run
Returned(log) ==
    UNION { { [coin |-> log[j].coin, venue |-> log[j].venue,
               row |-> log[j].df[i]] : i \in 1..Len(log[j].df) }
            : j \in 1..Len(log) }

\* run, lines 508-513: writer.flush() and writer.close()
FlushAndClose ==
    /\ bpc = "flush"
    /\ influx' = PhysicalWrite(influx, buffer)
    /\ buffer' = <<>>
    /\ bpc' = "done"
    /\ count1' = IF brun = 1 THEN BagCardinality(influx') ELSE count1
    /\ returned1' = IF brun = 1 THEN Returned(callLog) ELSE returned1
    /\ UNCHANGED <<coins, total_days, chunk_size_days, shift, brun, coin, venue,
                   chunk, chunk_starts, any_success, total_points_written,
                   stats, results, callLog, bfaults>>
    /\ UNCHANGED nonBackVars

\* the backfill is started again, `shift` days later, on the same store
SecondRun ==
    /\ bpc = "done"
    /\ brun = 1
    /\ brun' = 2
    /\ bpc' = "coin"
    /\ coin' = 1
    /\ venue' = 0
    /\ chunk' = 0
    /\ chunk_starts' = <<>>
    /\ any_success' = FALSE
    /\ total_points_written' = 0
    /\ stats' = [EmptyStats EXCEPT !.total_coins = Len(coins)]
    /\ results' = <<>>
    /\ callLog' = <<>>
    /\ UNCHANGED <<coins, total_days, chunk_size_days, shift, buffer, influx,
                   bfaults, count1, returned1>>
    /\ UNCHANGED nonBackVars

BackNext ==
    \/ StartCoin
    \/ ChunkFetched
    \/ ChunkAdapterFailed
    \/ ChunkInvalidRows
    \/ ChunkRaises
    \/ UpdateStats
    \/ FlushAndClose
    \/ SecondRun

BackIdle ==
    /\ coins = <<>>
    /\ total_days = 0
    /\ chunk_size_days = 0
    /\ shift = 0
    /\ bpc = "idle"
    /\ brun = 1
    /\ coin = 0
    /\ venue = 0
    /\ chunk = 0
    /\ chunk_starts = <<>>
    /\ any_success = FALSE
    /\ total_points_written = 0
    /\ stats = EmptyStats
    /\ results = <<>>
    /\ callLog = <<>>
    /\ buffer = <<>>
    /\ influx = EmptyBag
    /\ bfaults = 0
    /\ count1 = 0
    /\ returned1 = {}

(***************************************************************************)
(* The fetch operations of the venue adapters (modules/exchanges): what    *)
(* each returns when a request, a status check, a decode or the parsing    *)
(* of a page raises.                                                       *)
(***************************************************************************)
\* pages a paginated fetch may request
MaxPages == 2

\* the exception classes a request or the handling of its response raises
Raisable ==
    {"Timeout", "ConnectionError", "HTTPError", "JSONDecodeError",
     "KeyError", "ValueError", "TypeError"}

\* the base class of an exception class ("none" above Exception)
BaseClass(cls) ==
    CASE cls \in {"Timeout", "ConnectionError", "HTTPError"} -> "RequestException"
      [] cls = "JSONDecodeError"  -> "ValueError"
      [] cls = "RequestException" -> "Exception"
      [] cls \in {"KeyError", "ValueError", "TypeError"} -> "Exception"
      [] OTHER -> "none"

\* isinstance(exc, cls)
RECURSIVE IsInstance(_, _)
IsInstance(exc, cls) ==
    IF exc = "none" THEN FALSE
    ELSE exc = cls \/ IsInstance(BaseClass(exc), cls)

\* a function whose except clauses name the request exceptions only
CaughtByRequestClauses(handlers, exc) ==
    \E h \in 1..Len(handlers) :
        handlers[h] # "Exception" /\ IsInstance(exc, handlers[h])

\* some except clause of the try statement matches the exception
Caught(handlers, exc) ==
    \E h \in 1..Len(handlers) : IsInstance(exc, handlers[h])

\* the fetch operations: how they request (paged: a loop of requests;
\* single: one request; fallback: one request, then the InfluxDB analysis;
\* local: no request), their except clauses in order, what they return on
\* success and what every except clause returns
FetchOps ==
    { [adapter |-> "bybit", op |-> "fetch_funding_rate_period", shape |-> "single",
       handlers |-> <<"RequestException", "Exception">>,
       ok |-> "dict", on_error |-> "empty_dict"],
      [adapter |-> "bybit", op |-> "fetch_funding_rate", shape |-> "paged",
       handlers |-> <<"RequestException", "Exception">>,
       ok |-> "df", on_error |-> "empty_df"],
      [adapter |-> "bybit", op |-> "fetch_historical_kline", shape |-> "paged",
       handlers |-> <<"RequestException", "Exception">>,
       ok |-> "df", on_error |-> "empty_df"],
      [adapter |-> "deribit", op |-> "fetch_historical_dvol", shape |-> "paged",
       handlers |-> <<"HTTPError", "RequestException", "Exception">>,
       ok |-> "df", on_error |-> "empty_df"],
      [adapter |-> "bitunix", op |-> "fetch_historical_kline", shape |-> "single",
       handlers |-> <<"Timeout", "RequestException", "Exception">>,
       ok |-> "df", on_error |-> "empty_df"],
      [adapter |-> "bitunix", op |-> "fetch_funding_rate_period", shape |-> "fallback",
       handlers |-> <<"Exception">>,
       ok |-> "dict", on_error |-> "default_dict"],
      [adapter |-> "bitunix", op |-> "fetch_funding_rate", shape |-> "single",
       handlers |-> <<"Timeout", "RequestException", "Exception">>,
       ok |-> "df", on_error |-> "empty_df"],
      [adapter |-> "binance", op |-> "fetch_historical_kline", shape |-> "paged",
       handlers |-> <<"RequestException", "Exception">>,
       ok |-> "df", on_error |-> "empty_df"],
      [adapter |-> "binance", op |-> "fetch_funding_rate_period", shape |-> "local",
       handlers |-> <<"Exception">>,
       ok |-> "dict", on_error |-> "default_dict"],
      [adapter |-> "binance", op |-> "fetch_funding_rate", shape |-> "paged",
       handlers |-> <<"RequestException", "Exception">>,
       ok |-> "df", on_error |-> "empty_df"],
      [adapter |-> "hyperliquid", op |-> "fetch_funding_rate_period", shape |-> "local",
       handlers |-> <<"Exception">>,
       ok |-> "dict", on_error |-> "default_dict"],
      [adapter |-> "hyperliquid", op |-> "fetch_funding_rate", shape |-> "single",
       handlers |-> <<"Timeout", "RequestException", "Exception">>,
       ok |-> "df", on_error |-> "empty_df"],
      [adapter |-> "hyperliquid", op |-> "fetch_historical_kline", shape |-> "local",
       handlers |-> <<>>,
       ok |-> "empty_df", on_error |-> "empty_df"],
      [adapter |-> "yfinance", op |-> "fetch_historical_kline", shape |-> "single",
       handlers |-> <<"Exception">>,
       ok |-> "df", on_error |-> "empty_df"] }

\* the empty result of an operation that got no data without any error
EmptyResult(o) == IF o.ok = "dict" THEN "empty_dict" ELSE "empty_df"

FetchInit ==
    /\ fop \in FetchOps
    /\ fpc = "call"
    /\ fgot = 0
    /\ ffailed = <<>>
    /\ fresult = "none"

\* an operation that issues no request returns at once
LocalReturn ==
    /\ fpc = "call"
    /\ fop.shape = "local"
    /\ fresult' = fop.ok
    /\ fpc' = "returned"
    /\ UNCHANGED <<fop, fgot, ffailed>>
    /\ UNCHANGED nonFetchVars

\* a request succeeds and its page is parsed; a paginated fetch either
\* goes on to the next page or leaves its loop and returns the frame
PageOk ==
    /\ fpc = "call"
    /\ fop.shape # "local"
    /\ fgot' = fgot + 1
    /\ \E more \in BOOLEAN :
          IF fop.shape = "paged" /\ more /\ fgot + 1 < MaxPages
          THEN fpc' = "call" /\ fresult' = fresult
          ELSE fpc' = "returned" /\ fresult' = fop.ok
    /\ UNCHANGED <<fop, ffailed>>
    /\ UNCHANGED nonFetchVars

\* the venue answers with an error code or with no rows: the loop is left
\* (break) and what was collected so far is returned
PageWithoutData ==
    /\ fpc = "call"
    /\ fop.shape # "local"
    /\ IF fop.shape = "fallback"
       THEN fpc' = "fallback" /\ fresult' = fresult
       ELSE /\ fpc' = "returned"
            /\ fresult' = IF fgot = 0 THEN EmptyResult(fop) ELSE fop.ok
    /\ UNCHANGED <<fop, fgot, ffailed>>
    /\ UNCHANGED nonFetchVars

\* the request, raise_for_status, response.json() or the parsing of the
\* page raises exc
PageRaises ==
    /\ fpc = "call"
    /\ fop.shape # "local"
    /\ \E exc \in Raisable :
          /\ ffailed' = <<exc, fgot + 1>>
          /\ IF Caught(fop.handlers, exc)
             THEN IF fop.shape = "fallback"
                  THEN fpc' = "fallback" /\ fresult' = fresult
                  ELSE fpc' = "returned" /\ fresult' = fop.on_error
             ELSE fpc' = "returned" /\ fresult' = "raised"
    /\ UNCHANGED <<fop, fgot>>
    /\ UNCHANGED nonFetchVars

\* Bitunix fetch_funding_rate_period, lines 173-293: the period estimated
\* from the stored funding rates, the default when they do not suffice
FallbackAnalysis ==
    /\ fpc = "fallback"
    /\ fresult' \in {"analysis_dict", "default_dict"}
    /\ fpc' = "returned"
    /\ UNCHANGED <<fop, fgot, ffailed>>
    /\ UNCHANGED nonFetchVars

\* the InfluxDB query of the fallback raises: lines 295-304
FallbackRaises ==
    /\ fpc = "fallback"
    /\ \E exc \in Raisable :
          fresult' = IF Caught(<<"Exception">>, exc) THEN "default_dict"
                     ELSE "raised"
    /\ fpc' = "returned"
    /\ UNCHANGED <<fop, fgot, ffailed>>
    /\ UNCHANGED nonFetchVars

FetchNext ==
    \/ LocalReturn
    \/ PageOk
    \/ PageWithoutData
    \/ PageRaises
    \/ FallbackAnalysis
    \/ FallbackRaises

FetchIdle ==
    /\ fop = [adapter |-> "none"]
    /\ fpc = "idle"
    /\ fgot = 0
    /\ ffailed = <<>>
    /\ fresult = "none"

(***************************************************************************)
(* The time-series fetches of the venue adapters (modules/exchanges):     *)
(* the paginated loops of bybit.py, deribit.py and binance.py and the      *)
(* one-request fetches of bitunix.py, yfinance.py and hyperliquid.py.  One *)
(* call: every request is one action whose response is chosen by the       *)
(* venue.  A row is reduced to its timestamp, the only column the loops,   *)
(* the sort and the de-duplication look at; Binance klines also carry the  *)
(* close time of the last row, which moves the cursor.                     *)
(***************************************************************************)
\* timestamps are 0..MaxTime
MaxTime == 2
\* the "limit" parameter of a request (200, 1000, 1500 in the code)
PageLimit == 2
\* rows one call may accumulate in all_data
MaxItems == 3

Times == 0 .. MaxTime
\* a continuation is <<>> (None) or <<t>>
None == <<>>

\* direction: the end of the window the cursor starts from ("none": the
\*   function issues one request and has no loop);
\* advance: where the next cursor comes from;
\* sends_limit: the request carries a "limit" parameter;
\* checks_limit: the loop compares the size of the page with that limit;
\* explicit_window: the function takes start_time and end_time;
\* frame: how the returned frame is built from the rows received.
PagedFetches ==
    { [name |-> "bybit_kline", direction |-> "backward",
       advance |-> "continuation", sends_limit |-> TRUE,
       checks_limit |-> FALSE, explicit_window |-> TRUE, frame |-> "sort"],
      [name |-> "deribit_dvol", direction |-> "backward",
       advance |-> "continuation", sends_limit |-> FALSE,
       checks_limit |-> FALSE, explicit_window |-> TRUE, frame |-> "sort"],
      [name |-> "bybit_funding", direction |-> "forward",
       advance |-> "last_row", sends_limit |-> TRUE,
       checks_limit |-> TRUE, explicit_window |-> FALSE,
       frame |-> "sort_dedup"],
      [name |-> "binance_kline", direction |-> "forward",
       advance |-> "last_close_plus_1", sends_limit |-> TRUE,
       checks_limit |-> TRUE, explicit_window |-> TRUE, frame |-> "sort"],
      [name |-> "binance_funding", direction |-> "forward",
       advance |-> "last_row_plus_1", sends_limit |-> TRUE,
       checks_limit |-> TRUE, explicit_window |-> FALSE, frame |-> "sort"] }

\* the fetches that issue one request (Bitunix fetch_funding_rate returns
\* one row stamped with the clock and is left out)
SinglePageFetches ==
    { [name |-> "bitunix_kline", direction |-> "none", advance |-> "none",
       sends_limit |-> FALSE, checks_limit |-> FALSE,
       explicit_window |-> TRUE, frame |-> "sort"],
      [name |-> "yfinance_kline", direction |-> "none", advance |-> "none",
       sends_limit |-> FALSE, checks_limit |-> FALSE,
       explicit_window |-> TRUE, frame |-> "sort"],
      [name |-> "hyperliquid_funding", direction |-> "none",
       advance |-> "none", sends_limit |-> FALSE, checks_limit |-> FALSE,
       explicit_window |-> FALSE, frame |-> "latest_row"] }

TimeSeriesFetches == PagedFetches \cup SinglePageFetches

\* the pages a venue may answer with: up to PageLimit rows, in any order
Pages == UNION { [1 .. n -> Times] : n \in 0 .. PageLimit }

\* what the venue sends beside the rows: the "continuation" of a token loop,
\* the close time of the last kline of Binance, nothing otherwise
Extras(f, items) ==
    CASE f.advance = "continuation" -> { <<t>> : t \in Times } \cup {None}
      [] f.advance = "last_close_plus_1" /\ items # <<>> ->
            { <<t>> : t \in Times }
      [] OTHER -> {None}

\* while current_end > start_timestamp / while current_start < end_time
LoopGuard(f, cur, s, e) ==
    CASE f.direction = "backward" -> cur > s
      [] f.direction = "forward" -> cur < e
      [] OTHER -> TRUE

\* KeepOrder stands for a frame returned without sort_values
KeepOrder(s) == s

RECURSIVE InsertSorted(_, _)
InsertSorted(x, s) ==
    IF s = <<>> THEN <<x>>
    ELSE IF x <= Head(s) THEN <<x>> \o s
    ELSE <<Head(s)>> \o InsertSorted(x, Tail(s))

\* df.sort_values('time').reset_index(drop=True)
RECURSIVE SortValues(_)
SortValues(s) ==
    IF s = <<>> THEN <<>>
    ELSE InsertSorted(Head(s), SortValues(Tail(s)))

\* df.drop_duplicates(subset=['time'], keep='last')
RECURSIVE DropDuplicates(_)
DropDuplicates(s) ==
    IF s = <<>> THEN <<>>
    ELSE IF \E i \in 2 .. Len(s) : s[i] = Head(s)
         THEN DropDuplicates(Tail(s))
         ELSE <<Head(s)>> \o DropDuplicates(Tail(s))

\* the code after the loop: the empty frame, or the frame built from the
\* rows (Hyperliquid keeps result[-1] only)
BuildFrame(f, data) ==
    IF data = <<>> THEN <<>>
    ELSE CASE f.frame = "sort_dedup" -> DropDuplicates(SortValues(data))
           [] f.frame = "latest_row" -> << data[Len(data)] >>
           [] OTHER -> SortValues(data)

\* ShortPageIgnored stands for a length loop that never compares the page
\* with its limit
ShortPageIgnored(f, items) == FALSE

\* the break of a length loop on a short page
\* (len(funding_data) < 200, len(data) < 1500, len(data) < 1000)
ShortPageBreaks(f, items) == f.checks_limit /\ Len(items) < PageLimit

\* the cursor after a non-empty page
NextCursor(f, cur, items, extra) ==
    CASE f.advance = "continuation" -> extra[1]
      [] f.advance = "last_row" -> items[Len(items)]
      [] f.advance = "last_close_plus_1" -> extra[1] + 1
      [] OTHER -> items[Len(items)] + 1

\* the loop is left with break after a non-empty page
BreaksAfter(f, cur, items, extra) ==
    CASE f.advance = "none" -> TRUE
      [] f.advance = "continuation" -> extra = None
      [] f.advance = "last_row" ->
            items[Len(items)] <= cur \/ ShortPageBreaks(f, items)
      [] OTHER -> ShortPageBreaks(f, items)

NoPage == [kind |-> "none", n |-> 0, continuation |-> None]

PageInit ==
    /\ padapter \in TimeSeriesFetches
    /\ start_timestamp \in Times
    /\ end_timestamp \in Times
    /\ ppc = "call"
    /\ cursor = 0
    /\ all_data = <<>>
    /\ requests = 0
    /\ last_page = NoPage
    /\ page_df = <<>>

PageIdle ==
    /\ padapter = [name |-> "none"]
    /\ start_timestamp = 0
    /\ end_timestamp = 0
    /\ ppc = "idle"
    /\ cursor = 0
    /\ all_data = <<>>
    /\ requests = 0
    /\ last_page = NoPage
    /\ page_df = <<>>

\* the call up to the first evaluation of the while condition
BeginFetch ==
    /\ ppc = "call"
    /\ LET cur == IF padapter.direction = "backward"
                  THEN end_timestamp ELSE start_timestamp
       IN /\ cursor' = cur
          /\ ppc' = IF LoopGuard(padapter, cur, start_timestamp, end_timestamp)
                    THEN "loop" ELSE "done"
    /\ page_df' = <<>>
    /\ UNCHANGED <<padapter, start_timestamp, end_timestamp, all_data,
                   requests, last_page>>
    /\ UNCHANGED nonPageVars

\* requests.get, raise_for_status or json() raises: the except clauses
\* return the empty frame and the rows received so far are dropped
RequestRaises ==
    /\ ppc = "loop"
    /\ requests' = requests + 1
    /\ last_page' = [kind |-> "raise", n |-> 0, continuation |-> None]
    /\ page_df' = <<>>
    /\ ppc' = "done"
    /\ UNCHANGED <<padapter, start_timestamp, end_timestamp, cursor,
                   all_data>>
    /\ UNCHANGED nonPageVars

\* the answer carries no row list (missing "result"/"list"/"data",
\* retCode != 0, a Binance error dict): break
AnswerWithoutList ==
    /\ ppc = "loop"
    /\ requests' = requests + 1
    /\ last_page' = [kind |-> "no_list", n |-> 0, continuation |-> None]
    /\ page_df' = BuildFrame(padapter, all_data)
    /\ ppc' = "done"
    /\ UNCHANGED <<padapter, start_timestamp, end_timestamp, cursor,
                   all_data>>
    /\ UNCHANGED nonPageVars

\* one iteration of the while loop on an answer that carries a row list
PageReceived ==
    /\ ppc = "loop"
    /\ \E items \in Pages :
       \E extra \in Extras(padapter, items) :
          /\ Len(all_data) + Len(items) <= MaxItems
          /\ requests' = requests + 1
          /\ last_page' = [kind |-> "page", n |-> Len(items),
                           continuation |->
                               IF padapter.advance = "continuation"
                               THEN extra ELSE None]
          /\ IF items = <<>>
             THEN \* if not candles: break
                  /\ all_data' = all_data
                  /\ cursor' = cursor
                  /\ ppc' = "done"
             ELSE /\ all_data' = all_data \o items
                  /\ IF padapter.advance \in {"none", "continuation", "last_row"}
                     THEN \* the break precedes the assignment of the cursor
                          IF BreaksAfter(padapter, cursor, items, extra)
                          THEN cursor' = cursor /\ ppc' = "done"
                          ELSE /\ cursor' = NextCursor(padapter, cursor,
                                                       items, extra)
                               /\ ppc' = IF LoopGuard(padapter, cursor',
                                            start_timestamp, end_timestamp)
                                         THEN "loop" ELSE "done"
                     ELSE \* Binance assigns the cursor, then breaks
                          /\ cursor' = NextCursor(padapter, cursor, items,
                                                  extra)
                          /\ ppc' = IF /\ ~BreaksAfter(padapter, cursor,
                                                       items, extra)
                                       /\ LoopGuard(padapter, cursor',
                                            start_timestamp, end_timestamp)
                                    THEN "loop" ELSE "done"
          /\ page_df' = IF ppc' = "done"
                        THEN BuildFrame(padapter, all_data') ELSE <<>>
    /\ UNCHANGED <<padapter, start_timestamp, end_timestamp>>
    /\ UNCHANGED nonPageVars

PageNext ==
    \/ BeginFetch
    \/ RequestRaises
    \/ AnswerWithoutList
    \/ PageReceived

(***************************************************************************)
(* The writer as an object of its own: write_market_data, flush and close  *)
(* called in any order on one InfluxDBWriter(batch_size).  One series is   *)
(* written; a row carries its position in the frame as its value, so that  *)
(* rows with the same timestamp can be told apart.                         *)
(***************************************************************************)
\* rows of one frame handed to write_market_data
MaxRows == 2
\* calls of write_market_data, flush and close on the open writer
MaxOps == 2

RowTimes == {1, 2}

Frames ==
    UNION { { [i \in 1 .. n |-> [time |-> t[i], val |-> i, valid |-> v[i]]] :
                t \in [1 .. n -> RowTimes], v \in [1 .. n -> BOOLEAN] } :
            n \in 0 .. MaxRows }

\* the series of the calls: symbol, exchange, data_type
WrittenSeries == <<"BTCUSDT", "bybit", "kline">>

\* the buffer is flushed only when it holds more than batch_size points
ExceededCapacity(n, size) == n > size

\* the buffer reached its capacity
ReachedCapacity(n, size) == n >= size

\* close() that releases the connection without a flush
CloseDropsBuffer(store, pts) == store

\* close() flushes: the buffered points are written before the release
CloseFlushes(store, pts) == PhysicalWrite(store, pts)

NoCall ==
    [op |-> "none", df |-> <<>>, accepted |-> <<>>, ret |-> 0,
     error |-> FALSE, before |-> 0]

WriterInit ==
    /\ batch_size \in 1 .. WriterBatchSize
    /\ wbuffer = <<>>
    /\ persisted = EmptyBag
    /\ closed = FALSE
    /\ wops = 0
    /\ last_call = NoCall
    /\ waccepted = <<>>
    /\ wsent = <<>>

WriterIdle ==
    /\ batch_size = 0
    /\ wbuffer = <<>>
    /\ persisted = EmptyBag
    /\ closed = FALSE
    /\ wops = 0
    /\ last_call = NoCall
    /\ waccepted = <<>>
    /\ wsent = <<>>

\* write_market_data(df, symbol, exchange, data_type) on the open writer
WriteMarketData ==
    /\ ~closed
    /\ wops < MaxOps
    /\ \E df \in Frames :
          LET pts == WriterPoints(df, WrittenSeries[1], WrittenSeries[2],
                                  WrittenSeries[3])
              filled == wbuffer \o pts
          IN  /\ IF ReachedCapacity(Len(filled), batch_size)
                 THEN /\ persisted' = PhysicalWrite(persisted, filled)
                      /\ wsent' = wsent \o filled
                      /\ wbuffer' = <<>>
                 ELSE /\ persisted' = persisted
                      /\ wsent' = wsent
                      /\ wbuffer' = filled
              /\ waccepted' = waccepted \o pts
              /\ last_call' = [op |-> "write", df |-> df, accepted |-> pts,
                               ret |-> Len(pts), error |-> FALSE,
                               before |-> Len(wbuffer)]
    /\ wops' = wops + 1
    /\ UNCHANGED <<batch_size, closed>>
    /\ UNCHANGED nonWriterVars

\* a flush() that empties the buffer without a physical write
FlushDropsBuffer ==
    /\ ~closed
    /\ wops < MaxOps
    /\ wbuffer' = <<>>
    /\ last_call' = [op |-> "flush", df |-> <<>>, accepted |-> <<>>,
                     ret |-> 0,
                     error |-> FALSE, before |-> Len(wbuffer)]
    /\ wops' = wops + 1
    /\ UNCHANGED <<batch_size, closed, persisted, waccepted, wsent>>
    /\ UNCHANGED nonWriterVars

\* flush(): the partial buffer is written
Flush ==
    /\ ~closed
    /\ wops < MaxOps
    /\ persisted' = PhysicalWrite(persisted, wbuffer)
    /\ wsent' = wsent \o wbuffer
    /\ wbuffer' = <<>>
    /\ last_call' = [op |-> "flush", df |-> <<>>, accepted |-> <<>>,
                     ret |-> 0,
                     error |-> FALSE, before |-> Len(wbuffer)]
    /\ wops' = wops + 1
    /\ UNCHANGED <<batch_size, closed, waccepted>>
    /\ UNCHANGED nonWriterVars

\* close(): flush, then release the connection
Close ==
    /\ ~closed
    /\ wops < MaxOps
    /\ persisted' = CloseFlushes(persisted, wbuffer)
    /\ wsent' = wsent \o wbuffer
    /\ wbuffer' = <<>>
    /\ closed' = TRUE
    /\ last_call' = [op |-> "close", df |-> <<>>, accepted |-> <<>>,
                     ret |-> 0,
                     error |-> FALSE, before |-> Len(wbuffer)]
    /\ wops' = wops + 1
    /\ UNCHANGED <<batch_size, waccepted>>
    /\ UNCHANGED nonWriterVars

\* write_market_data after close(): an error, nothing else
WriteAfterClose ==
    /\ closed
    /\ \E df \in Frames :
          last_call' = [op |-> "write", df |-> df, accepted |-> <<>>,
                        ret |-> 0, error |-> TRUE, before |-> Len(wbuffer)]
    /\ UNCHANGED <<batch_size, wbuffer, persisted, closed, wops, waccepted,
                   wsent>>
    /\ UNCHANGED nonWriterVars

WriterNext ==
    \/ WriteMarketData
    \/ Flush
    \/ Close
    \/ WriteAfterClose

(***************************************************************************)
(* The funding-period cache of the writer: set_funding_period and          *)
(* get_funding_period called in any order.  period_cache is a dict whose   *)
(* key is the string symbol + ":" + exchange (tests/test_period.py asserts *)
(* "BTCUSDT:bybit" in writer.period_cache).                                *)
(***************************************************************************)
sColon == <<":">>
s_bybit == <<"b","y","b","i","t">>

CacheSymbols == { sBTC, sBTC \o sColon \o sUSDT }
CacheExchanges == { s_bybit, sUSDT \o sColon \o s_bybit }
CachePairs == CacheSymbols \X CacheExchanges
Periods == {"4", "8"}

\* the key of period_cache
CacheKey(symbol, exchange) == symbol \o sColon \o exchange

\* period_cache.get(key, "unknown")
CacheGet(cache, symbol, exchange) ==
    IF CacheKey(symbol, exchange) \in DOMAIN cache
    THEN cache[CacheKey(symbol, exchange)]
    ELSE "unknown"

\* period_cache[key] = period
CacheSet(cache, symbol, exchange, period) ==
    [k \in DOMAIN cache \cup {CacheKey(symbol, exchange)} |->
        IF k = CacheKey(symbol, exchange) THEN period ELSE cache[k]]

EmptyCache == [k \in {} |-> "unknown"]
NoCacheCall ==
    [op |-> "none", symbol |-> <<>>, exchange |-> <<>>, ret |-> "none"]

CacheInit ==
    /\ period_cache = EmptyCache
    /\ set_log = EmptyCache
    /\ cache_call = NoCacheCall

CacheIdle ==
    /\ period_cache = EmptyCache
    /\ set_log = EmptyCache
    /\ cache_call = NoCacheCall

\* writer.set_funding_period(symbol, exchange, period)
SetFundingPeriod ==
    \E pair \in CachePairs, period \in Periods :
       /\ period_cache' = CacheSet(period_cache, pair[1], pair[2], period)
       /\ set_log' = [q \in DOMAIN set_log \cup {pair} |->
                         IF q = pair THEN period ELSE set_log[q]]
       /\ cache_call' = [op |-> "set", symbol |-> pair[1],
                         exchange |-> pair[2], ret |-> "none"]
       /\ UNCHANGED nonCacheVars

\* writer.get_funding_period(symbol, exchange)
GetFundingPeriod ==
    \E pair \in CachePairs :
       /\ cache_call' = [op |-> "get", symbol |-> pair[1],
                         exchange |-> pair[2],
                         ret |-> CacheGet(period_cache, pair[1], pair[2])]
       /\ UNCHANGED <<period_cache, set_log>>
       /\ UNCHANGED nonCacheVars

CacheNext ==
    \/ SetFundingPeriod
    \/ GetFundingPeriod

(***************************************************************************)
(* calculate_new_symbol applied to one input triple.                       *)
(***************************************************************************)
sBinanceFutures == <<"B","i","n","a","n","c","e"," ","F","u","t","u","r","e","s">>
sYFinanceName   == <<"Y","F","i","n","a","n","c","e">>
sYahooFinance   == <<"Y","a","h","o","o"," ","F","i","n","a","n","c","e">>

SymbolInputs ==
    { sBTCUSDT, sETHUSDT, sBTC \o sUSD, sBTC \o sUSDC, sBTC,
      sUSDC \o sUSDT, <<"A","A","P","L">>, sBTCUSDT \o sBYBIT }
ExchangeInputs ==
    { sBybit, sDeribit, s_deribit, sBitunix, sYFinanceName, sYahooFinance,
      sBinanceFutures }
DataTypeInputs == {"kline", "dvol", "funding_rate"}

SymInit ==
    /\ sym_in \in [old_symbol : SymbolInputs, exchange : ExchangeInputs,
                   data_type : DataTypeInputs]
    /\ sym_out = <<>>

SymIdle ==
    /\ sym_in = [old_symbol |-> <<>>, exchange |-> <<>>, data_type |-> "none"]
    /\ sym_out = <<>>

MigIdle ==
    /\ mpc = "idle"
    /\ mode = "verify"
    /\ run = 1
    /\ mstore = {}
    /\ plan = <<>>
    /\ idx = 0
    /\ selected = <<>>
    /\ copied = 0
    /\ response = <<>>
    /\ entryState = <<>>
    /\ storeAtStart = {}
    /\ nWrites = 0
    /\ nDeletes = 0
    /\ run1Clean = FALSE
    /\ flagged = {}
    /\ deleteIssued = {}
    /\ faults = 0

\* the call calculate_new_symbol(old_symbol, exchange, data_type)
Calculate ==
    /\ sym_out = <<>>
    /\ sym_out' = << calculate_new_symbol(sym_in.old_symbol, sym_in.exchange,
                                          sym_in.data_type) >>
    /\ UNCHANGED <<sym_in>>
    /\ UNCHANGED nonSymVars

SymNext == Calculate

(***************************************************************************)
(* The entry points: main() and run() of backfill.py and of                *)
(* data_collector.py.  What a coin's processing does to the writer is      *)
(* reduced to the number of points the writer n_accepted from it.            *)
(***************************************************************************)
\* most entries of the coins file
MaxCoins == 2
\* most points the writer accepts while one coin is processed
MaxAccepted == 2
\* batch_size of the writer the entry point constructs, scaled down
EntryBatchSize == 2

Programs == {"backfill", "data_collector"}

\* the coins file on disk: absent, present but unreadable, or readable
CoinsFileStates == {"missing", "unreadable", "readable"}

\* no exit code: the process is running
Running == <<>>

\* load_coins: the entries it returns (a missing file and a file that
\* cannot be read both give the empty list)
LoadCoins(file, n) == IF file = "readable" THEN n ELSE 0

\* except KeyboardInterrupt in main: a log line, then sys.exit(0)
OnKeyboardInterrupt(s, q) == [stored |-> s, queued |-> q]

\* `if not coins: ... return` of run, seen from main: the process ends with
\* exit code 0
ExitCodeNoCoins == 0

\* except KeyboardInterrupt in main: sys.exit(0)
ExitCodeInterrupt == 0

\* main returns after run returned
ExitCodeCompleted == 0

\* except Exception in main: sys.exit(1)
ExitCodeException == 1

EntryInit ==
    /\ program \in Programs
    /\ coins_file \in CoinsFileStates
    /\ listed \in 0..MaxCoins
    /\ coins_file # "readable" => listed = 0
    /\ epc = "construct"
    /\ ecoin = 0
    /\ in_buffer = 0
    /\ in_store = 0
    /\ n_accepted = 0
    /\ exit_code = Running
    /\ ended_by = "none"
    /\ writer_calls = <<>>

EntryIdle ==
    /\ program = "none"
    /\ coins_file = "missing"
    /\ listed = 0
    /\ epc = "idle"
    /\ ecoin = 0
    /\ in_buffer = 0
    /\ in_store = 0
    /\ n_accepted = 0
    /\ exit_code = Running
    /\ ended_by = "none"
    /\ writer_calls = <<>>

\* the position is inside the try block of main
InTry == epc \in {"construct", "load", "coin", "flush", "close"}

\* main: the constructor (adapters and InfluxDBWriter) returns
Construct ==
    /\ epc = "construct"
    /\ epc' = "load"
    /\ UNCHANGED <<program, coins_file, listed, ecoin, in_buffer, in_store,
                   n_accepted, exit_code, ended_by>>
    /\ UNCHANGED writer_calls
    /\ UNCHANGED nonEntryVars

\* run: load_coins and the check of its result
LoadAndCheck ==
    /\ epc = "load"
    /\ IF LoadCoins(coins_file, listed) = 0
       THEN /\ epc' = "exited"
            /\ exit_code' = <<ExitCodeNoCoins>>
            /\ ended_by' = "no_coins"
            /\ ecoin' = ecoin
       ELSE /\ epc' = "coin"
            /\ ecoin' = 1
            /\ UNCHANGED <<exit_code, ended_by>>
    /\ UNCHANGED <<program, coins_file, listed, in_buffer, in_store, n_accepted>>
    /\ UNCHANGED writer_calls
    /\ UNCHANGED nonEntryVars

\* run: one iteration of the loop over the coins (backfill_coin or
\* fetch_and_store_coin), in which the writer n_accepted n points
ProcessCoin ==
    /\ epc = "coin"
    /\ \E n \in 0..MaxAccepted :
         /\ n_accepted' = n_accepted + n
         /\ writer_calls' = IF n > 0 THEN Append(writer_calls, "write")
                            ELSE writer_calls
         /\ IF in_buffer + n >= EntryBatchSize
            THEN in_store' = in_store + in_buffer + n /\ in_buffer' = 0
            ELSE in_store' = in_store /\ in_buffer' = in_buffer + n
    /\ ecoin' = ecoin + 1
    /\ epc' = IF ecoin < LoadCoins(coins_file, listed) THEN "coin" ELSE "flush"
    /\ UNCHANGED <<program, coins_file, listed, exit_code, ended_by>>
    /\ UNCHANGED nonEntryVars

\* run: self.writer.flush()
RunFlush ==
    /\ epc = "flush"
    /\ in_store' = in_store + in_buffer
    /\ in_buffer' = 0
    /\ epc' = "close"
    /\ UNCHANGED <<program, coins_file, listed, ecoin, n_accepted, exit_code,
                   ended_by>>
    /\ writer_calls' = Append(writer_calls, "flush")
    /\ UNCHANGED nonEntryVars

\* run: self.writer.close(), the statistics, and the end of main
RunCloseAndReturn ==
    /\ epc = "close"
    /\ in_store' = in_store + in_buffer
    /\ in_buffer' = 0
    /\ epc' = "exited"
    /\ exit_code' = <<ExitCodeCompleted>>
    /\ ended_by' = "completed"
    /\ UNCHANGED <<program, coins_file, listed, ecoin, n_accepted>>
    /\ writer_calls' = Append(writer_calls, "close")
    /\ UNCHANGED nonEntryVars

\* the user interrupts the process while main is inside its try block
KeyboardInterrupt ==
    /\ InTry
    /\ LET w == OnKeyboardInterrupt(in_store, in_buffer)
       IN  in_store' = w.stored /\ in_buffer' = w.queued
    /\ epc' = "exited"
    /\ exit_code' = <<ExitCodeInterrupt>>
    /\ ended_by' = "interrupt"
    /\ UNCHANGED <<program, coins_file, listed, ecoin, n_accepted>>
    /\ UNCHANGED writer_calls
    /\ UNCHANGED nonEntryVars

\* an exception no handler of run catches reaches main: the constructor,
\* flush() or close() raises
UnhandledException ==
    /\ epc \in {"construct", "flush", "close"}
    /\ epc' = "exited"
    /\ exit_code' = <<ExitCodeException>>
    /\ ended_by' = "exception"
    /\ UNCHANGED <<program, coins_file, listed, ecoin, in_buffer, in_store, n_accepted>>
    /\ UNCHANGED writer_calls
    /\ UNCHANGED nonEntryVars

EntryNext ==
    \/ Construct
    \/ LoadAndCheck
    \/ ProcessCoin
    \/ RunFlush
    \/ RunCloseAndReturn
    \/ KeyboardInterrupt
    \/ UnhandledException

(***************************************************************************)
(* One line of the asset list: parse_asset_line of modules/asset_parser.py,*)
(* the line loop of HistoricalBackfill.load_coins, and the venue blocks    *)
(* backfill_coin enters for the entry load_coins made of the line.         *)
(***************************************************************************)
s_bitunix == <<"b","i","t","u","n","i","x">>
s_Deribit == <<"D","e","r","i","b","i","t">>
s_ohlc    == <<"o","h","l","c">>
s_dvol    == <<"d","v","o","l">>
s_funding_rate == <<"f","u","n","d","i","n","g","_","r","a","t","e">>
sAAPL     == <<"A","A","P","L">>
sPlus  == <<"+">>
sBar   == <<"|">>
sComma == <<",">>
sHash  == <<"#">>

\* str.strip() of blanks
RECURSIVE LStrip(_)
LStrip(s) == IF s # <<>> /\ Head(s) = " " THEN LStrip(Tail(s)) ELSE s
RECURSIVE RStrip(_)
RStrip(s) ==
    IF s # <<>> /\ s[Len(s)] = " " THEN RStrip(SubSeq(s, 1, Len(s) - 1)) ELSE s
Strip(s) == RStrip(LStrip(s))

\* str.startswith
StartsWith(s, pre) == Len(s) >= Len(pre) /\ SubSeq(s, 1, Len(pre)) = pre

\* str.split(sep) for a separator of one character: "" gives [""]
RECURSIVE SplitOn(_, _)
SplitOn(s, sep) ==
    IF \E i \in 1..Len(s) : s[i] = sep
    THEN LET i == CHOOSE k \in 1..Len(s) :
                    /\ s[k] = sep
                    /\ \A j \in 1..(k - 1) : s[j] # sep
         IN  <<SubSeq(s, 1, i - 1)>> \o SplitOn(SubSeq(s, i + 1, Len(s)), sep)
    ELSE <<s>>

\* str.split(): fields between runs of blanks, none of them empty
SplitBlanks(s) == SelectSeq(SplitOn(s, " "), LAMBDA f : f # <<>>)

\* str.split(sep, 1): the part before the first sep and the part after it
SplitOnce(s, sep) ==
    LET i == CHOOSE k \in 1..Len(s) :
               /\ s[k] = sep
               /\ \A j \in 1..(k - 1) : s[j] # sep
    IN  <<SubSeq(s, 1, i - 1), SubSeq(s, i + 1, Len(s))>>

\* exchanges[exchange_name] = data_types
DictPut(d, k, v) == [x \in (DOMAIN d) \cup {k} |-> IF x = k THEN v ELSE d[x]]

\* a default of {"ohlc"} for every venue listed without data types
DefaultOhlcOnly(exchange_name) == {s_ohlc}

\* lines 82-88: the data types of a venue listed without any
DefaultDataTypes(exchange_name) ==
    IF Lower(exchange_name) = s_deribit THEN {s_dvol}
    ELSE IF Lower(exchange_name) = s_yfinance THEN {s_ohlc}
    ELSE {s_ohlc, s_funding_rate}

\* lines 74-90: one exchange_entry of a spec
ParseEntry(exchanges, exchange_entry) ==
    IF Contains(exchange_entry, sBar)
    THEN LET pair == SplitOnce(exchange_entry, "|")
         IN  DictPut(exchanges, pair[1], SeqRange(SplitOn(pair[2], ",")))
    ELSE DictPut(exchanges, exchange_entry, DefaultDataTypes(exchange_entry))

\* the two nested loops of lines 71-90 over the entries of all specs
RECURSIVE ParseEntries(_, _)
ParseEntries(exchanges, entries) ==
    IF entries = <<>> THEN exchanges
    ELSE ParseEntries(ParseEntry(exchanges, Head(entries)), Tail(entries))

RECURSIVE EntriesOf(_)
EntriesOf(exchange_specs) ==
    IF exchange_specs = <<>> THEN <<>>
    ELSE SplitOn(Head(exchange_specs), "+") \o EntriesOf(Tail(exchange_specs))

\* parse_asset_line: <<>> for None, <<[symbol, exchanges]>> otherwise
parse_asset_line(raw) ==
    LET stripped == Strip(raw)
        parts == SplitBlanks(stripped)
    IN  IF stripped = <<>> \/ StartsWith(stripped, sHash) THEN <<>>
        ELSE IF Len(parts) < 2 THEN <<>>
        ELSE << [symbol |-> parts[1],
                 exchanges |-> ParseEntries(<<>>, EntriesOf(Tail(parts)))] >>

\* load_coins of backfill.py, lines 193-208, for one line of the file:
\* <<>> when the line is skipped, <<(symbol, exchanges)>> otherwise
LoadCoinsLine(raw) ==
    LET stripped == Strip(raw)
        parts == SplitBlanks(stripped)
    IN  IF stripped = <<>> \/ StartsWith(stripped, sHash) THEN <<>>
        ELSE << [symbol |-> parts[1],
                 exchanges |-> IF Len(parts) > 1 THEN SplitOn(parts[2], "+")
                               ELSE <<s_bybit>>] >>

\* the name each `if "..." in exchanges` of backfill_coin looks for, the
\* data type its fetch operation returns, in the order of VenueBlocks
BlockNames == <<s_bybit, s_yfinance, s_bitunix, s_deribit>>
BlockDataTypes == <<s_ohlc, s_ohlc, s_ohlc, s_dvol>>

yfinance_supported_symbols ==
    {sBTCUSDT, sETHUSDT, <<"X","R","P">> \o sUSDT, <<"S","O","L">> \o sUSDT}

\* the guards of lines 275, 325, 376 and 424 on the entry of load_coins
EntryEnabled(v, symbol, exchanges) ==
    /\ BlockNames[v] \in SeqRange(exchanges)
    /\ v = 2 => symbol \in yfinance_supported_symbols

\* what a line of the asset list lists: a symbol and one or two venues,
\* each with the data types listed for it (<<>>: none listed); no venue
\* is listed twice in a line
LineVenues == {s_bybit, s_deribit, s_yfinance, s_bitunix, s_Deribit}
LineTypeLists ==
    { <<>>, <<s_ohlc>>, <<s_funding_rate>>, <<s_dvol>>,
      <<s_ohlc, s_funding_rate>> }
LineEntries == [venue : LineVenues, types : LineTypeLists]
LineSecondEntries ==
    { [venue |-> s_bybit, types |-> <<>>],
      [venue |-> s_deribit, types |-> <<s_dvol>>],
      [venue |-> s_bybit, types |-> <<s_funding_rate>>] }
LineSymbols == {sBTCUSDT, sAAPL}
Listings ==
    { [kind |-> "assets", symbol |-> sym, entries |-> <<e>>] :
        sym \in LineSymbols, e \in LineEntries }
    \cup { [kind |-> "assets", symbol |-> sym, entries |-> <<e, f>>] :
        sym \in LineSymbols,
        e \in LineEntries \ [venue : {s_bybit, s_deribit}, types : LineTypeLists],
        f \in LineSecondEntries }
    \cup { [kind |-> k, symbol |-> sBTCUSDT,
            entries |-> << [venue |-> s_bybit, types |-> <<>>] >>] :
          k \in {"blank", "blanks", "comment", "padded", "two_specs"} }

\* the text of a list of fields joined by sep
RECURSIVE Join(_, _)
Join(fields, sep) ==
    IF fields = <<>> THEN <<>>
    ELSE IF Len(fields) = 1 THEN fields[1]
    ELSE fields[1] \o sep \o Join(Tail(fields), sep)

\* the text of one venue of a line: bybit, bybit|ohlc, bybit|ohlc,funding_rate
EntryText(e) ==
    IF e.types = <<>> THEN e.venue ELSE e.venue \o sBar \o Join(e.types, sComma)

\* the line of the file that lists l
LineText(l) ==
    LET body == l.symbol \o sSpace
                \o Join([i \in 1..Len(l.entries) |-> EntryText(l.entries[i])], sPlus)
    IN  CASE l.kind = "blank"     -> <<>>
          [] l.kind = "blanks"    -> sSpace \o sSpace
          [] l.kind = "comment"   -> sHash \o sSpace \o body
          [] l.kind = "padded"    -> sSpace \o body \o sSpace
          [] l.kind = "two_specs" -> body \o sSpace \o s_deribit
          [] OTHER                -> body

AssetInit ==
    /\ listing \in Listings
    /\ asset_line = LineText(listing)
    /\ apc = "line"
    /\ asset_config = <<>>
    /\ coin_entry = <<>>
    /\ blocks_entered = {}

AssetIdle ==
    /\ listing = [kind |-> "none"]
    /\ asset_line = <<>>
    /\ apc = "idle"
    /\ asset_config = <<>>
    /\ coin_entry = <<>>
    /\ blocks_entered = {}

\* the line is read by parse_asset_line and by load_coins
ReadLine ==
    /\ apc = "line"
    /\ asset_config' = parse_asset_line(asset_line)
    /\ coin_entry' = LoadCoinsLine(asset_line)
    /\ apc' = IF LoadCoinsLine(asset_line) = <<>> THEN "skipped" ELSE "loaded"
    /\ UNCHANGED <<listing, asset_line, blocks_entered>>
    /\ UNCHANGED nonAssetVars

\* backfill_coin(symbol, exchanges) on the entry: the venue blocks entered
DispatchEntry ==
    /\ apc = "loaded"
    /\ blocks_entered' =
          { v \in 1..Len(BlockNames) :
              EntryEnabled(v, coin_entry[1].symbol, coin_entry[1].exchanges) }
    /\ apc' = "dispatched"
    /\ UNCHANGED <<listing, asset_line, asset_config, coin_entry>>
    /\ UNCHANGED nonAssetVars

AssetNext ==
    \/ ReadLine
    \/ DispatchEntry

(***************************************************************************)
(* The resolution a kline fetch is called with, and the interval the       *)
(* adapter sends to the venue: BinanceFuturesKline.fetch_historical_kline  *)
(* (binance.py) and BitunixKline.fetch_historical_kline (bitunix.py).      *)
(***************************************************************************)
\* str(n) of a natural number
DigitChars == <<"0","1","2","3","4","5","6","7","8","9">>
RECURSIVE IntText(_)
IntText(n) ==
    IF n < 10 THEN <<DigitChars[n + 1]>>
    ELSE IntText(n \div 10) \o <<DigitChars[(n % 10) + 1]>>

i1m  == <<"1","m">>
i3m  == <<"3","m">>
i5m  == <<"5","m">>
i15m == <<"1","5","m">>
i30m == <<"3","0","m">>
i1h  == <<"1","h">>
i2h  == <<"2","h">>
i4h  == <<"4","h">>
i6h  == <<"6","h">>
i8h  == <<"8","h">>
i12h == <<"1","2","h">>
i1d  == <<"1","d">>
i3d  == <<"3","d">>
i1w  == <<"1","w">>
i1Mo == <<"1","M">>

\* the interval strings of INTERVAL_MAP: Binance's buckets
BinanceIntervals ==
    {i1m, i3m, i5m, i15m, i30m, i1h, i2h, i4h, i6h, i8h, i12h, i1d, i3d, i1w, i1Mo}

\* INTERVAL_MAP.get(key, default)
IntervalMapGet(key, default) ==
    IF key \in BinanceIntervals THEN key
    ELSE IF key = IntText(60) THEN i1h
    ELSE IF key = IntText(240) THEN i4h
    ELSE IF key = IntText(1440) THEN i1d
    ELSE default

\* binance.py, lines 66-71; str(resolution) of a string is the string
BinanceInterval(r) ==
    IF r.kind = "int"
    THEN [interval |-> IntervalMapGet(IntText(r.minutes), i1h), raised |-> FALSE]
    ELSE [interval |-> IntervalMapGet(r.text, r.text), raised |-> FALSE]

\* bitunix.py, lines 38-48; `resolution < 60` raises TypeError for a string
BitunixInterval(r) ==
    IF r.kind = "str" THEN [interval |-> <<>>, raised |-> TRUE]
    ELSE IF r.minutes < 60
         THEN [interval |-> IntText(r.minutes) \o <<"m">>, raised |-> FALSE]
    ELSE IF r.minutes = 60 THEN [interval |-> i1h, raised |-> FALSE]
    ELSE IF r.minutes = 240 THEN [interval |-> i4h, raised |-> FALSE]
    ELSE IF r.minutes = 1440 THEN [interval |-> i1d, raised |-> FALSE]
    ELSE [interval |-> IntText(r.minutes) \o <<"m">>, raised |-> FALSE]

DeriveInterval(adapter, r) ==
    IF adapter = "binance" THEN BinanceInterval(r) ELSE BitunixInterval(r)

KlineAdapters == {"binance", "bitunix"}

\* largest multiple of an hour drawn as integer minutes, in hours
MaxHours == 5
\* the resolutions drawn: integer minutes and interval strings
ResolutionMinutes ==
    {1, 3, 5, 7, 15, 30, 45, 1440, 10080} \cup {60 * h : h \in 1..MaxHours}
ResolutionTexts ==
    BinanceIntervals \cup {IntText(60), IntText(240), IntText(1440), IntText(5),
                           <<"7","m">>, <<"D">>}
Resolutions ==
    { [kind |-> "int", minutes |-> n, text |-> <<>>] : n \in ResolutionMinutes }
    \cup { [kind |-> "str", minutes |-> 0, text |-> t] : t \in ResolutionTexts }

ResInit ==
    /\ kadapter \in KlineAdapters
    /\ resolution \in Resolutions
    /\ kpc = "call"
    /\ interval = <<>>
    /\ kraised = FALSE
    /\ krequests = 0

ResIdle ==
    /\ kadapter = "none"
    /\ resolution = [kind |-> "none", minutes |-> 0, text |-> <<>>]
    /\ kpc = "idle"
    /\ interval = <<>>
    /\ kraised = FALSE
    /\ krequests = 0

\* the conversion of the resolution at the head of the try block
ConvertResolution ==
    /\ kpc = "call"
    /\ interval' = DeriveInterval(kadapter, resolution).interval
    /\ kraised' = DeriveInterval(kadapter, resolution).raised
    /\ kpc' = IF DeriveInterval(kadapter, resolution).raised THEN "except"
              ELSE "request"
    /\ UNCHANGED <<kadapter, resolution, krequests>>
    /\ UNCHANGED nonResVars

\* the request is sent with the interval derived and the fetch goes on
SendRequest ==
    /\ kpc = "request"
    /\ krequests' = krequests + 1
    /\ kpc' = "requested"
    /\ UNCHANGED <<kadapter, resolution, interval, kraised>>
    /\ UNCHANGED nonResVars

\* except Exception: the fetch returns an empty frame, no request was sent
ReturnEmptyFrame ==
    /\ kpc = "except"
    /\ kpc' = "empty"
    /\ UNCHANGED <<kadapter, resolution, interval, kraised, krequests>>
    /\ UNCHANGED nonResVars

ResNext ==
    \/ ConvertResolution
    \/ SendRequest
    \/ ReturnEmptyFrame

(***************************************************************************)
(* BitunixKline.fetch_funding_rate_period (bitunix.py): the settings API,  *)
(* then the analysis of the stored funding rates.  Time is counted in      *)
(* quarters of an hour.                                                    *)
(***************************************************************************)
\* most stored funding-rate points the query returns
MaxHistory == 3

\* the times and the rates of the stored points drawn
HistoryTimes == {0, 1, 3, 5, 21, 37, 140}
HistoryRates == {1, 2}

\* what the settings API does: it fails, it does not list the symbol, it
\* lists it with a fundingInterval that is no number, or with one in hours
ApiOutcomes ==
    { [kind |-> k, value |-> 0] : k \in {"raises", "not_listed", "not_a_number"} }
    \cup { [kind |-> "listed", value |-> v] : v \in {1, 4, 8} }

\* the stored points, newest first (ORDER BY time DESC)
RECURSIVE HistoriesOfLength(_)
HistoriesOfLength(n) ==
    IF n = 0 THEN { <<>> }
    ELSE { s \in { <<[time |-> t, rate |-> r]>> \o h :
                      t \in HistoryTimes, r \in HistoryRates,
                      h \in HistoriesOfLength(n - 1) } :
             Len(s) < 2 \/ s[2].time < s[1].time }
Histories == UNION { HistoriesOfLength(n) : n \in 0..MaxHistory }

\* funding_rates.sort(key=lambda x: x['time'])
RECURSIVE SortByTime(_)
SortByTime(points) ==
    IF points = <<>> THEN <<>>
    ELSE LET i == CHOOSE k \in 1..Len(points) :
                    /\ \A j \in 1..Len(points) : points[k].time <= points[j].time
                    /\ \A j \in 1..(k - 1) : points[j].time # points[k].time
         IN  <<points[i]>>
             \o SortByTime(SubSeq(points, 1, i - 1) \o SubSeq(points, i + 1, Len(points)))

\* lines 227-243: the time between two changes of the rate
RECURSIVE RateChangeIntervals(_, _, _, _, _)
RateChangeIntervals(fr, i, last_rate, last_change_time, acc) ==
    IF i > Len(fr) THEN acc
    ELSE IF last_rate # <<>> /\ fr[i].rate # last_rate[1] /\ last_change_time # <<>>
         THEN RateChangeIntervals(fr, i + 1, <<fr[i].rate>>, <<fr[i].time>>,
                                  Append(acc, fr[i].time - last_change_time[1]))
    ELSE IF last_rate = <<>>
         THEN RateChangeIntervals(fr, i + 1, <<fr[i].rate>>, <<fr[i].time>>, acc)
    ELSE RateChangeIntervals(fr, i + 1, <<fr[i].rate>>, last_change_time, acc)

\* lines 245-250: the time between all points
PointIntervals(fr) == [i \in 1..(Len(fr) - 1) |-> fr[i + 1].time - fr[i].time]

\* round(x * 2) / 2 of an interval of q quarters of an hour, in half hours;
\* round() rounds a half to the even neighbour
RoundToHalfHours(q) ==
    IF q % 2 = 0 THEN q \div 2
    ELSE IF ((q - 1) \div 2) % 2 = 0 THEN (q - 1) \div 2 ELSE (q + 1) \div 2

\* Counter(values).most_common(1)[0][0]: the most frequent value, the one
\* met first among equally frequent ones
MostCommon(values) ==
    LET count(x) == Cardinality({ i \in 1..Len(values) : values[i] = x })
        best == CHOOSE i \in 1..Len(values) :
                   /\ \A j \in 1..Len(values) : count(values[j]) <= count(values[i])
                   /\ \A j \in 1..(i - 1) : count(values[j]) < count(values[i])
    IN  values[best]

\* a period that is the rounded interval itself
PeriodIsInterval(half_hours) == half_hours \div 2

\* lines 266-274: the period for the most common interval, in half hours
PeriodOf(half_hours) ==
    IF half_hours > 0 /\ half_hours < 2 THEN 8
    ELSE IF half_hours < 2 * 2 THEN 1
    ELSE IF half_hours < 2 * 6 THEN 4
    ELSE 8

\* lines 203-293: the record the analysis of the stored points returns
AnalyseHistory(points) ==
    LET funding_rates == SortByTime(points)
        changes == RateChangeIntervals(funding_rates, 1, <<>>, <<>>, <<>>)
        intervals_hours == IF changes = <<>> THEN PointIntervals(funding_rates)
                           ELSE changes
        regular_intervals ==
            SelectSeq(intervals_hours, LAMBDA x : x <= 24 * 4)
        rounded_intervals ==
            [i \in 1..Len(regular_intervals) |-> RoundToHalfHours(regular_intervals[i])]
        most_common_rounded ==
            IF regular_intervals # <<>> THEN MostCommon(rounded_intervals)
            ELSE 2 * 8
    IN  IF Len(funding_rates) < 2
        THEN [fundingInterval |-> 8, method |-> "default"]
        ELSE IF intervals_hours # <<>>
        THEN [fundingInterval |-> PeriodOf(most_common_rounded),
              method |-> "influxdb_analysis"]
        ELSE [fundingInterval |-> 8, method |-> "default"]

PeriodInit ==
    /\ api \in ApiOutcomes
    /\ store_fails \in BOOLEAN
    /\ history \in Histories
    /\ store_fails => history = <<>>
    /\ qpc = "api"
    /\ period_record = <<>>

PeriodIdle ==
    /\ api = [kind |-> "none", value |-> 0]
    /\ store_fails = FALSE
    /\ history = <<>>
    /\ qpc = "idle"
    /\ period_record = <<>>

\* lines 141-171: the settings API lists the symbol with its fundingInterval
ApiAnswers ==
    /\ qpc = "api"
    /\ api.kind = "listed"
    /\ period_record' = << [fundingInterval |-> api.value, method |-> "api"] >>
    /\ qpc' = "returned"
    /\ UNCHANGED <<api, store_fails, history>>
    /\ UNCHANGED nonPeriodVars

\* the request or int() raises (caught at line 170), or the symbol is not
\* in the answer: the function goes on to the stored funding rates
ApiGivesNothing ==
    /\ qpc = "api"
    /\ api.kind # "listed"
    /\ qpc' = "fallback"
    /\ UNCHANGED <<api, store_fails, history, period_record>>
    /\ UNCHANGED nonPeriodVars

\* lines 174-293: the query answers
FallbackAnswers ==
    /\ qpc = "fallback"
    /\ ~store_fails
    /\ period_record' =
          << IF history = <<>> THEN [fundingInterval |-> 8, method |-> "default"]
             ELSE AnalyseHistory(history) >>
    /\ qpc' = "returned"
    /\ UNCHANGED <<api, store_fails, history>>
    /\ UNCHANGED nonPeriodVars

\* lines 295-304: the connection or the query raises
FallbackFails ==
    /\ qpc = "fallback"
    /\ store_fails
    /\ period_record' = << [fundingInterval |-> 8, method |-> "default"] >>
    /\ qpc' = "returned"
    /\ UNCHANGED <<api, store_fails, history>>
    /\ UNCHANGED nonPeriodVars

PeriodNext ==
    \/ ApiAnswers
    \/ ApiGivesNothing
    \/ FallbackAnswers
    \/ FallbackFails

(***************************************************************************)
(* The windows of backfill_coin (backfill.py, lines 258-282) at the        *)
(* precision of datetime: time is counted in microseconds from start_date, *)
(* and chunk_size_days, a float, in half microseconds.                     *)
(***************************************************************************)
\* largest total_days drawn, as the microseconds of timedelta(days=total_days)
MaxRangeTicks == 4
\* largest chunk_size_days drawn, in half microseconds
MaxHalfTicks == 6
\* the model stops the while loop at this many chunk starts
MaxWindows == 2 * MaxRangeTicks + 1

\* timedelta(days=chunk_size_days): the microseconds of the duration,
\* rounded half to even
TimeDelta(half_ticks) ==
    LET lower == half_ticks \div 2
    IN  IF half_ticks % 2 = 0 THEN lower
        ELSE IF lower % 2 = 0 THEN lower ELSE lower + 1

\* chunk_end of a venue block: chunk_start + timedelta(...), clipped
ClippedEnd(chunk_start, delta, end) ==
    IF chunk_start + delta > end THEN end ELSE chunk_start + delta

ChunksInit ==
    /\ gtotal \in 1..MaxRangeTicks
    /\ gsize \in 1..MaxHalfTicks
    /\ gpc = "loop"
    /\ gcurrent = 0
    /\ gstarts = <<>>
    /\ gwindows = <<>>

ChunksIdle ==
    /\ gtotal = 0
    /\ gsize = 0
    /\ gpc = "idle"
    /\ gcurrent = 0
    /\ gstarts = <<>>
    /\ gwindows = <<>>

\* one iteration of `while current_date < end_date`, lines 267-269
AppendChunkStart ==
    /\ gpc = "loop"
    /\ gcurrent < gtotal
    /\ Len(gstarts) < MaxWindows
    /\ gstarts' = Append(gstarts, gcurrent)
    /\ gcurrent' = gcurrent + TimeDelta(gsize)
    /\ UNCHANGED <<gtotal, gsize, gpc, gwindows>>
    /\ UNCHANGED nonChunksVars

\* the while loop ends, line 271
ChunkLoopEnds ==
    /\ gpc = "loop"
    /\ gcurrent >= gtotal
    /\ gpc' = "windows"
    /\ UNCHANGED <<gtotal, gsize, gcurrent, gstarts, gwindows>>
    /\ UNCHANGED nonChunksVars

\* one iteration of the chunk loop of a venue block, lines 277-282: the
\* window handed to the fetch
NextWindow ==
    /\ gpc = "windows"
    /\ Len(gwindows) < Len(gstarts)
    /\ LET chunk_start == gstarts[Len(gwindows) + 1]
       IN  gwindows' = Append(gwindows,
               [start |-> chunk_start,
                end |-> ClippedEnd(chunk_start, TimeDelta(gsize), gtotal)])
    /\ UNCHANGED <<gtotal, gsize, gpc, gcurrent, gstarts>>
    /\ UNCHANGED nonChunksVars

\* the chunk loop of the venue block ends
WindowsDone ==
    /\ gpc = "windows"
    /\ Len(gwindows) = Len(gstarts)
    /\ gpc' = "done"
    /\ UNCHANGED <<gtotal, gsize, gcurrent, gstarts, gwindows>>
    /\ UNCHANGED nonChunksVars

ChunksNext ==
    \/ AppendChunkStart
    \/ ChunkLoopEnds
    \/ NextWindow
    \/ WindowsDone

(***************************************************************************)
(* The two forward time-cursor loops against a venue that holds a set of   *)
(* records and answers as its API documents: BybitKline.fetch_funding_rate *)
(* (bybit.py, the newest records of the range first) and                   *)
(* BinanceFuturesKline.fetch_historical_kline (binance.py, the oldest      *)
(* candles of the range first).                                            *)
(***************************************************************************)
\* largest timestamp of a record or of a range
MaxVenueTime == 5
\* the "limit" of a request (200 for Bybit, 1500 for Binance)
VenueLimit == 2
\* the interval of the candles of Binance: close time = open time + width - 1
CandleWidth == 2

VenueTimes == 0..MaxVenueTime
VenueFetches == {"bybit_funding", "binance_kline"}

\* the records the venue may hold: funding records at any time, candles at
\* the multiples of their interval
VenueRecordSets(fetch) ==
    IF fetch = "binance_kline"
    THEN SUBSET { t \in VenueTimes : t % CandleWidth = 0 }
    ELSE SUBSET VenueTimes

\* the records of S by increasing time
RECURSIVE Ascending(_)
Ascending(S) ==
    IF S = {} THEN <<>>
    ELSE LET least == CHOOSE x \in S : \A y \in S : x <= y
         IN  <<least>> \o Ascending(S \ {least})

\* the records of S by decreasing time
RECURSIVE Descending(_)
Descending(S) ==
    IF S = {} THEN <<>>
    ELSE LET most == CHOOSE x \in S : \A y \in S : x >= y
         IN  <<most>> \o Descending(S \ {most})

\* the first n elements of a sequence
Take(s, n) == SubSeq(s, 1, IF Len(s) < n THEN Len(s) ELSE n)

\* the answer of the venue to a request (startTime, endTime, limit)
VenueAnswer(fetch, records, startTime, endTime) ==
    LET in_range == { t \in records : startTime <= t /\ t <= endTime }
    IN  IF fetch = "binance_kline"
        THEN Take(Ascending(in_range), VenueLimit)
        ELSE Take(Descending(in_range), VenueLimit)

\* a cursor that restarts at the open time of the last row
CursorAtLastRow(fetch, page) == page[Len(page)]

\* the cursor after a page: int(funding_data[-1]["fundingRateTimestamp"])
\* for Bybit, data[-1][6] + 1 for Binance
CursorAfter(fetch, page) ==
    IF fetch = "binance_kline"
    THEN (page[Len(page)] + CandleWidth - 1) + 1
    ELSE page[Len(page)]

\* the break after a page: Bybit breaks before it assigns the cursor, on a
\* cursor that does not advance and on a short page; Binance on a short page
BreakAfter(fetch, page, cur) ==
    IF fetch = "binance_kline"
    THEN Len(page) < VenueLimit
    ELSE page[Len(page)] <= cur \/ Len(page) < VenueLimit

\* the frame built after the loop
FrameOf(fetch, data) ==
    IF fetch = "binance_kline" THEN SortValues(data)
    ELSE DropDuplicates(SortValues(data))

VenueInit ==
    /\ vfetch \in VenueFetches
    /\ venue_records \in VenueRecordSets(vfetch)
    /\ vstart \in VenueTimes
    /\ vend \in VenueTimes
    /\ vstart <= vend
    /\ vpc = "loop"
    /\ current_start = vstart
    /\ vall = <<>>
    /\ vrequests = <<>>
    /\ vframe = <<>>

VenueIdle ==
    /\ vfetch = "none"
    /\ venue_records = {}
    /\ vstart = 0
    /\ vend = 0
    /\ vpc = "idle"
    /\ current_start = 0
    /\ vall = <<>>
    /\ vrequests = <<>>
    /\ vframe = <<>>

\* one iteration of `while current_start < end_time` that receives a page
\* and goes on
VenuePageContinues ==
    /\ vpc = "loop"
    /\ current_start < vend
    /\ LET page == VenueAnswer(vfetch, venue_records, current_start, vend)
       IN  /\ IF page = <<>> THEN FALSE
              ELSE ~BreakAfter(vfetch, page, current_start)
           /\ vall' = vall \o page
           /\ vrequests' = Append(vrequests,
                                  [startTime |-> current_start, page |-> page])
           /\ current_start' = CursorAfter(vfetch, page)
    /\ UNCHANGED <<vfetch, venue_records, vstart, vend, vpc, vframe>>
    /\ UNCHANGED nonVenueVars

\* one iteration that leaves the loop with break, on an empty page or after
\* a page, and the frame built from all_data
VenuePageBreaks ==
    /\ vpc = "loop"
    /\ current_start < vend
    /\ LET page == VenueAnswer(vfetch, venue_records, current_start, vend)
       IN  /\ IF page = <<>> THEN TRUE
              ELSE BreakAfter(vfetch, page, current_start)
           /\ vall' = vall \o page
           /\ vrequests' = Append(vrequests,
                                  [startTime |-> current_start, page |-> page])
           /\ current_start' =
                 IF page # <<>> /\ vfetch = "binance_kline"
                 THEN CursorAfter(vfetch, page) ELSE current_start
           /\ vframe' = FrameOf(vfetch, vall \o page)
    /\ vpc' = "done"
    /\ UNCHANGED <<vfetch, venue_records, vstart, vend>>
    /\ UNCHANGED nonVenueVars

\* the while condition is false: the frame built from all_data
VenueLoopEnds ==
    /\ vpc = "loop"
    /\ ~(current_start < vend)
    /\ vframe' = FrameOf(vfetch, vall)
    /\ vpc' = "done"
    /\ UNCHANGED <<vfetch, venue_records, vstart, vend, current_start, vall,
                   vrequests>>
    /\ UNCHANGED nonVenueVars

VenueNext ==
    \/ VenuePageContinues
    \/ VenuePageBreaks
    \/ VenueLoopEnds

(***************************************************************************)
(* cleanup_duplicates (cleanup_duplicates.py), run on a store in which     *)
(* each series is unmigrated, partly copied, copied and not yet deleted,   *)
(* or migrated.                                                            *)
(***************************************************************************)
\* the series a store may hold in the old format
CleanupSeries ==
    { [symbol |-> sBTCUSDT, exchange |-> sBybit,   data_type |-> "kline"],
      [symbol |-> sBTCUSDT, exchange |-> sDeribit, data_type |-> "dvol"],
      [symbol |-> sETHUSDT, exchange |-> sBitunix, data_type |-> "kline"] }

\* how far the migration of a series got
MigrationStates == {"absent", "old_only", "partly_copied", "copied", "migrated"}

\* the points of series ser under symbol sym at the times of T
SeriesPoints(ser, sym, T) ==
    { [symbol |-> sym, exchange |-> ser.exchange, data_type |-> ser.data_type,
       period |-> "none", time |-> t, val |-> t] : t \in T }

\* the points a series in migration state st has in the store
PointsInState(ser, st) ==
    LET new_symbol == calculate_new_symbol(ser.symbol, ser.exchange,
                                           ser.data_type)
        old == SeriesPoints(ser, ser.symbol, 1..MaxPoints)
    IN  CASE st = "absent" -> {}
          [] st = "old_only" -> old
          [] st = "partly_copied" ->
                old \cup SeriesPoints(ser, new_symbol, 1..(MaxPoints - 1))
          [] st = "copied" ->
                old \cup SeriesPoints(ser, new_symbol, 1..MaxPoints)
          [] OTHER -> SeriesPoints(ser, new_symbol, 1..MaxPoints)

\* the stores cleanup_duplicates may be run on
CleanupStores ==
    { UNION { PointsInState(ser, st[ser]) : ser \in CleanupSeries } :
        st \in [CleanupSeries -> MigrationStates] }

\* lines 31-46: the symbols without underscore, and for each of them the
\* pairs (symbol, 'Bybit', 'kline') and (symbol, 'Deribit', 'dvol')
migrated_pairs(store) ==
    LET RECURSIVE Pairs(_)
        Pairs(syms) ==
            IF syms = <<>> THEN <<>>
            ELSE << <<Head(syms), sBybit, "kline">>,
                    <<Head(syms), sDeribit, "dvol">> >> \o Pairs(Tail(syms))
    IN  Pairs(SortedStrings(OldFormat(store)))

CleanupInit ==
    /\ cstore \in CleanupStores
    /\ cpc = "list"
    /\ cpairs = <<>>
    /\ cidx = 0

CleanupIdle ==
    /\ cstore = {}
    /\ cpc = "idle"
    /\ cpairs = <<>>
    /\ cidx = 0

\* the SHOW TAG VALUES query and the list of pairs, lines 31-46
ListPairs ==
    /\ cpc = "list"
    /\ cpairs' = migrated_pairs(cstore)
    /\ cidx' = 1
    /\ cpc' = IF migrated_pairs(cstore) = <<>> THEN "done" ELSE "delete"
    /\ UNCHANGED cstore
    /\ UNCHANGED nonCleanupVars

\* one iteration of the loop of lines 50-58: the DELETE of a pair
DeletePair ==
    /\ cpc = "delete"
    /\ cstore' = StoreDelete(cstore, cpairs[cidx][1], cpairs[cidx][2],
                             cpairs[cidx][3])
    /\ cidx' = cidx + 1
    /\ cpc' = IF cidx < Len(cpairs) THEN "delete" ELSE "done"
    /\ UNCHANGED cpairs
    /\ UNCHANGED nonCleanupVars

\* a query raises: no handler, the script ends with the traceback
CleanupQueryRaises ==
    /\ cpc \in {"list", "delete"}
    /\ cpc' = "failed"
    /\ UNCHANGED <<cstore, cpairs, cidx>>
    /\ UNCHANGED nonCleanupVars

CleanupNext ==
    \/ ListPairs
    \/ DeletePair
    \/ CleanupQueryRaises

vars == <<symVars, migVars, backVars, fetchVars, pageVars, writerVars,
          cacheVars,
          entryVars,
          assetVars,
          resVars,
          periodVars,
          chunksVars,
          venueVars,
          cleanupVars>>

\* each specification runs one component; the others stay idle
InitMigration ==
    /\ MigInit
    /\ SymIdle /\ BackIdle /\ FetchIdle
    /\ PageIdle /\ WriterIdle /\ CacheIdle
    /\ EntryIdle
    /\ AssetIdle
    /\ ResIdle
    /\ PeriodIdle
    /\ ChunksIdle
    /\ VenueIdle
    /\ CleanupIdle

InitSymbol ==
    /\ SymInit
    /\ MigIdle /\ BackIdle /\ FetchIdle
    /\ PageIdle /\ WriterIdle /\ CacheIdle
    /\ EntryIdle
    /\ AssetIdle
    /\ ResIdle
    /\ PeriodIdle
    /\ ChunksIdle
    /\ VenueIdle
    /\ CleanupIdle

InitBackfill ==
    /\ BackInit
    /\ MigIdle /\ SymIdle /\ FetchIdle
    /\ PageIdle /\ WriterIdle /\ CacheIdle
    /\ EntryIdle
    /\ AssetIdle
    /\ ResIdle
    /\ PeriodIdle
    /\ ChunksIdle
    /\ VenueIdle
    /\ CleanupIdle

InitFetch ==
    /\ FetchInit
    /\ MigIdle /\ SymIdle /\ BackIdle
    /\ PageIdle /\ WriterIdle /\ CacheIdle
    /\ EntryIdle
    /\ AssetIdle
    /\ ResIdle
    /\ PeriodIdle
    /\ ChunksIdle
    /\ VenueIdle
    /\ CleanupIdle

InitPaging ==
    /\ PageInit
    /\ MigIdle /\ SymIdle /\ BackIdle
    /\ FetchIdle /\ WriterIdle /\ CacheIdle
    /\ EntryIdle
    /\ AssetIdle
    /\ ResIdle
    /\ PeriodIdle
    /\ ChunksIdle
    /\ VenueIdle
    /\ CleanupIdle

InitWriter ==
    /\ WriterInit
    /\ MigIdle /\ SymIdle /\ BackIdle
    /\ FetchIdle /\ PageIdle /\ CacheIdle
    /\ EntryIdle
    /\ AssetIdle
    /\ ResIdle
    /\ PeriodIdle
    /\ ChunksIdle
    /\ VenueIdle
    /\ CleanupIdle

InitCache ==
    /\ CacheInit
    /\ MigIdle /\ SymIdle /\ BackIdle
    /\ FetchIdle /\ PageIdle /\ WriterIdle
    /\ EntryIdle
    /\ AssetIdle
    /\ ResIdle
    /\ PeriodIdle
    /\ ChunksIdle
    /\ VenueIdle
    /\ CleanupIdle

InitEntry ==
    /\ EntryInit
    /\ MigIdle
    /\ SymIdle
    /\ BackIdle
    /\ FetchIdle
    /\ PageIdle
    /\ WriterIdle
    /\ CacheIdle
    /\ AssetIdle
    /\ ResIdle
    /\ PeriodIdle
    /\ ChunksIdle
    /\ VenueIdle
    /\ CleanupIdle

InitAsset ==
    /\ AssetInit
    /\ MigIdle
    /\ SymIdle
    /\ BackIdle
    /\ FetchIdle
    /\ PageIdle
    /\ WriterIdle
    /\ CacheIdle
    /\ EntryIdle
    /\ ResIdle
    /\ PeriodIdle
    /\ ChunksIdle
    /\ VenueIdle
    /\ CleanupIdle

InitRes ==
    /\ ResInit
    /\ MigIdle
    /\ SymIdle
    /\ BackIdle
    /\ FetchIdle
    /\ PageIdle
    /\ WriterIdle
    /\ CacheIdle
    /\ EntryIdle
    /\ AssetIdle
    /\ PeriodIdle
    /\ ChunksIdle
    /\ VenueIdle
    /\ CleanupIdle

InitPeriod ==
    /\ PeriodInit
    /\ MigIdle
    /\ SymIdle
    /\ BackIdle
    /\ FetchIdle
    /\ PageIdle
    /\ WriterIdle
    /\ CacheIdle
    /\ EntryIdle
    /\ AssetIdle
    /\ ResIdle
    /\ ChunksIdle
    /\ VenueIdle
    /\ CleanupIdle

InitChunks ==
    /\ ChunksInit
    /\ MigIdle
    /\ SymIdle
    /\ BackIdle
    /\ FetchIdle
    /\ PageIdle
    /\ WriterIdle
    /\ CacheIdle
    /\ EntryIdle
    /\ AssetIdle
    /\ ResIdle
    /\ PeriodIdle
    /\ VenueIdle
    /\ CleanupIdle

InitVenue ==
    /\ VenueInit
    /\ MigIdle
    /\ SymIdle
    /\ BackIdle
    /\ FetchIdle
    /\ PageIdle
    /\ WriterIdle
    /\ CacheIdle
    /\ EntryIdle
    /\ AssetIdle
    /\ ResIdle
    /\ PeriodIdle
    /\ ChunksIdle
    /\ CleanupIdle

InitCleanup ==
    /\ CleanupInit
    /\ MigIdle
    /\ SymIdle
    /\ BackIdle
    /\ FetchIdle
    /\ PageIdle
    /\ WriterIdle
    /\ CacheIdle
    /\ EntryIdle
    /\ AssetIdle
    /\ ResIdle
    /\ PeriodIdle
    /\ ChunksIdle
    /\ VenueIdle

SpecMigration == InitMigration /\ [][MigNext]_vars

SpecSymbol == InitSymbol /\ [][SymNext]_vars

SpecBackfill == InitBackfill /\ [][BackNext]_vars

SpecFetch == InitFetch /\ [][FetchNext]_vars

SpecPaging == InitPaging /\ [][PageNext]_vars

SpecWriter == InitWriter /\ [][WriterNext]_vars

SpecCache == InitCache /\ [][CacheNext]_vars

SpecEntry == InitEntry /\ [][EntryNext]_vars

SpecAsset == InitAsset /\ [][AssetNext]_vars

SpecRes == InitRes /\ [][ResNext]_vars

SpecPeriod == InitPeriod /\ [][PeriodNext]_vars

SpecChunks == InitChunks /\ [][ChunksNext]_vars

SpecVenue == InitVenue /\ [][VenueNext]_vars

SpecCleanup == InitCleanup /\ [][CleanupNext]_vars

(***************************************************************************)
(* Claims about the migration tool.                                        *)
(***************************************************************************)
\* point p of the store at the start of the invocation is still there, under
\* its own symbol or under the new symbol computed for its tag combination
PresentOldOrNew(p) ==
    \E q \in mstore :
        /\ q.exchange = p.exchange /\ q.data_type = p.data_type
        /\ q.time = p.time /\ q.val = p.val
        /\ \/ q.symbol = p.symbol
           \/ q.symbol = calculate_new_symbol(p.symbol, p.exchange, p.data_type)

\* C5, first half: a DELETE is issued for a plan entry only after every copy
\* batch of that entry was written without error, and an entry whose copy
\* raised gets no DELETE.
C5_DeleteOnlyAfterCopy ==
    /\ mpc = "delete" => copied = Len(selected) /\ entryState[idx] = "COPIED"
    /\ \A i \in deleteIssued : entryState[i] \in {"DELETED", "PARTIAL"}
    /\ \A i \in 1..Len(entryState) :
          entryState[i] = "FAILED" => i \notin deleteIssued

\* C5: the DELETE of an entry follows the error-free copy of all its batches
\* (PENDING -> COPIED -> DELETED), and hence, in every state of a migration
\* run, every point the store held when the run started is present under
\* its old tag set or under its new tag set.
C5_CopyThenDelete_NoPointLost ==
    /\ C5_DeleteOnlyAfterCopy
    /\ \A p \in storeAtStart : PresentOldOrNew(p)

\* C6: a second migrate_data over a store on which the first invocation
\* migrated every plan entry successfully builds an empty plan.
C6_SecondRunPlanEmpty ==
    (run = 2 /\ run1Clean /\ mode # "verify" /\ mpc # "start") => plan = <<>>

\* the part of C6 the code does guarantee: series renamed with one of the
\* three recognised suffixes are skipped on the second invocation
C6_RecognisedSuffixesSkipped ==
    (run = 2 /\ run1Clean /\ mode # "verify" /\ mpc # "start") =>
        \A i \in 1..Len(plan) : ~AlreadyMigrated(plan[i].old_symbol)
                                /\ plan[i].exchange \notin {sBybit}

\* C8: in --dry-run mode and in --verify mode the tool issues no write and
\* no DELETE, and the persisted points stay those of the start of the run.
C8_DryRunAndVerifyReadOnly ==
    mode \in {"dry-run", "verify"} =>
        /\ nWrites = 0
        /\ nDeletes = 0
        /\ mstore = storeAtStart

\* a dry run that built a non-empty plan over a non-empty store and ended
C8_Witness_DryRunWithPlanDone ==
    /\ mode = "dry-run"
    /\ mpc = "done"
    /\ plan # <<>>
    /\ mstore # {}

\* C9 as stated: outside dry-run mode the store is mutated only after the
\* operator answered exactly 'yes'; any other answer leaves it unchanged.
C9_MutationOnlyAfterLiteralYes ==
    (mode = "migrate" /\ (nWrites > 0 \/ nDeletes > 0 \/ mstore # storeAtStart))
        => response = s_yes

\* C9 amended: outside dry-run mode the store is mutated only after the
\* operator gave an answer whose lower-cased form is 'yes' (yes, YES, Yes);
\* any other answer, 'yes ' with a trailing blank included, ends the run
\* with the store unchanged.
C9_MutationOnlyAfterYesAnyCase ==
    (mode = "migrate" /\ (nWrites > 0 \/ nDeletes > 0 \/ mstore # storeAtStart))
        => Lower(response) = s_yes

\* the operator typed YES and the tool has copied and deleted
C9_Witness_UpperCaseYesMutates ==
    /\ mode = "migrate"
    /\ response = <<"Y","E","S">>
    /\ nWrites > 0
    /\ nDeletes > 0
    /\ mstore # storeAtStart

(***************************************************************************)
(* Claims about calculate_new_symbol.                                      *)
(***************************************************************************)
\* the quote-currency suffix (USDT, USDC or USD) removed from the end
StripQuoteSuffix(sym) ==
    IF EndsWith(sym, sUSDT) THEN SubSeq(sym, 1, Len(sym) - 4)
    ELSE IF EndsWith(sym, sUSDC) THEN SubSeq(sym, 1, Len(sym) - 4)
    ELSE IF EndsWith(sym, sUSD) THEN SubSeq(sym, 1, Len(sym) - 3)
    ELSE sym

\* the new symbol as the naming convention states it
ConventionSymbol(old_symbol, exchange, data_type) ==
    IF Lower(exchange) = s_deribit /\ data_type = "dvol"
    THEN StripQuoteSuffix(old_symbol) \o sDVOL
    ELSE old_symbol \o sUnderscore \o
         (IF Contains(Lower(exchange), s_yfinance)
             \/ Contains(Lower(exchange), s_yahoo)
          THEN sYFINANCE ELSE Upper(exchange))

\* C7: for Deribit dvol the result is the old symbol without its
\* quote-currency suffix, followed by _DVOL; otherwise it is
\* old_symbol + '_' + uppercase(exchange), YFINANCE for Yahoo-style names.
C7_NewSymbolFollowsConvention ==
    sym_out # <<>> =>
        sym_out[1] = ConventionSymbol(sym_in.old_symbol, sym_in.exchange,
                                      sym_in.data_type)

\* the two examples of the specification
C7_ExamplesHold ==
    /\ calculate_new_symbol(sBTCUSDT, sDeribit, "dvol") = sBTC \o sDVOL
    /\ calculate_new_symbol(sETHUSDT, sBybit, "kline") = sETHUSDT \o sBYBIT

(***************************************************************************)
(* Claims about the historical backfill.                                   *)
(***************************************************************************)
\* n: the number of windows W1..Wn of a range of total_days days cut into
\* windows of chunk_size_days days
WindowCount == (total_days + chunk_size_days - 1) \div chunk_size_days

\* the fetch calls of this run for coin i and the venue called name
CallsOf(i, name) ==
    SelectSeq(callLog, LAMBDA e : e.coin = i /\ e.venue = name)

\* exactly one call per window W1..Wn, in window order
OneCallPerWindow(calls) ==
    /\ Len(calls) = WindowCount
    /\ \A k \in 1..Len(calls) :
          /\ calls[k].chunk = k
          /\ calls[k].start = start_date + (k - 1) * chunk_size_days
          /\ k < Len(calls) => calls[k].end = calls[k + 1].start

\* the venues backfill_coin fetches from for a symbol: bybit, bitunix and
\* deribit, and yfinance for the four symbols it supports
FetchedVenue(symbol, name) ==
    \/ name \in {"bybit", "bitunix", "deribit"}
    \/ name = "yfinance" /\ symbol \in {"BTCUSDT", "ETHUSDT", "XRPUSDT", "SOLUSDT"}

PositionAfter(p, q) ==
    \/ p[1] > q[1]
    \/ p[1] = q[1] /\ p[2] > q[2]
    \/ p[1] = q[1] /\ p[2] = q[2] /\ p[3] > q[3]

BlockOf(name) == CHOOSE v \in 1..Len(VenueBlocks) : VenueBlocks[v].venue = name

\* C2: when the run has ended, every call that raised or returned nothing
\* is followed by the calls for all remaining windows of its venue, for all
\* remaining venues of its symbol and for all remaining symbols, and every
\* symbol got its result.
C2_FailureIsolation ==
    bpc = "done" =>
        /\ Len(results) = Len(coins)
        /\ \A j \in 1..Len(callLog) :
              callLog[j].outcome \in {"raised", "empty"} =>
                 \A i \in 1..Len(coins) : \A v \in 1..Len(VenueBlocks) :
                 \A k \in 1..WindowCount :
                    ( /\ VenueBlocks[v].venue \in coins[i].exchanges
                      /\ FetchedVenue(coins[i].symbol, VenueBlocks[v].venue)
                      /\ PositionAfter(<<i, v, k>>,
                            <<callLog[j].coin, BlockOf(callLog[j].venue),
                              callLog[j].chunk>>) )
                    => \E m \in (j + 1)..Len(callLog) :
                          /\ callLog[m].coin = i
                          /\ callLog[m].venue = VenueBlocks[v].venue
                          /\ callLog[m].chunk = k

\* the run has ended after a call for the first symbol raised and after a
\* call returned nothing, with a later venue and a later symbol fetched
C2_Witness_FailuresThenRest ==
    /\ bpc = "done"
    /\ \E j \in 1..Len(callLog) :
          /\ callLog[j].outcome = "raised"
          /\ callLog[j].coin = 1
          /\ \E m \in (j + 1)..Len(callLog) : callLog[m].coin = 2
    /\ \E j \in 1..Len(callLog) : callLog[j].outcome = "empty"

\* the points the writer accepted for coin i, over all its calls
RECURSIVE SumAccepted(_, _)
SumAccepted(log, i) ==
    IF log = <<>> THEN 0
    ELSE (IF Head(log).coin = i THEN Head(log).accepted ELSE 0)
         + SumAccepted(Tail(log), i)

\* some venue returned at least one point for some window of coin i
VenueProducedPoint(i) ==
    \E j \in 1..Len(callLog) : callLog[j].coin = i /\ callLog[j].df # <<>>

\* number of entries of a sequence of Booleans equal to b
CountOf(seq, b) == Cardinality({i \in 1..Len(seq) : seq[i] = b})

\* C3 as stated: a symbol is failed (False returned, failed count + 1) only
\* if no venue produced any point for any window; a symbol for which some
\* venue returned a point is counted as succeeded.
C3_FailedIffNoVenuePoint ==
    /\ \A i \in 1..Len(results) : results[i] = VenueProducedPoint(i)
    /\ stats.failed_coins = CountOf(results, FALSE)
    /\ stats.successful_coins = CountOf(results, TRUE)

\* C3 amended: a symbol is failed only if the writer accepted no point for
\* any window of any venue (write_market_data never returned more than 0);
\* whenever it accepted at least one point the symbol is counted as
\* succeeded.  Points a venue returned but the writer rejected do not count.
C3_FailedIffNoAcceptedPoint ==
    /\ \A i \in 1..Len(results) : results[i] = (SumAccepted(callLog, i) > 0)
    /\ stats.failed_coins = CountOf(results, FALSE)
    /\ stats.successful_coins = CountOf(results, TRUE)

\* a symbol is failed although a venue returned rows for it, and another
\* run state has a succeeded symbol
C3_Witness_RejectedRowsFail ==
    \E i \in 1..Len(results) :
        /\ results[i] = FALSE
        /\ VenueProducedPoint(i)
        /\ SumAccepted(callLog, i) = 0

\* no two rows of the store have the same (series key, timestamp)
NoDuplicateRows ==
    \A r \in BagToSet(influx) :
        /\ CopiesIn(r, influx) = 1
        /\ \A q \in BagToSet(influx) : SameKey(r, q) => r = q

C10_FailureGivesEmptyResult ==
    /\ fresult # "raised"
    /\ (fpc = "returned" /\ ffailed # <<>>)
          => fresult \in {"empty_df", "empty_dict", "default_dict"}

\* C10 amended: no fetch operation raises; one whose request or response
\* handling failed, on any page, returns an empty DataFrame, an empty dict
\* or the default dict, except that Bitunix fetch_funding_rate_period then
\* answers from its fallback: the period it estimates from the funding
\* rates stored in InfluxDB, and the default dict only when they do not
\* suffice or the query fails as well.
C10_NoFetchRaises ==
    /\ fresult # "raised"
    /\ (fpc = "returned" /\ ffailed # <<>>)
          => \/ fresult \in {"empty_df", "empty_dict", "default_dict"}
             \/ /\ fop.adapter = "bitunix"
                /\ fop.op = "fetch_funding_rate_period"
                /\ fresult = "analysis_dict"

\* a paginated fetch returned an empty frame after the parsing of its
\* second page raised KeyError
C10_Witness_SecondPageParseError ==
    /\ fpc = "returned"
    /\ fop.shape = "paged"
    /\ ffailed = <<"KeyError", 2>>
    /\ fresult = "empty_df"

(***************************************************************************)
(* Claims about the paginated fetch loops.                                 *)
(***************************************************************************)
\* the cursor moved strictly towards the far end of the window
Advanced(f, old, new) ==
    IF f.direction = "backward" THEN new < old ELSE new > old

\* C11 (as claimed) -- every paginated fetch loop ends after a bounded
\* number of requests whatever the venue answers.  No loop counts its
\* iterations, so the requests of a call are bounded by the window only if
\* every request that is followed by another one moved the cursor strictly
\* towards the far end of the window.
C11_EveryContinuingRequestAdvances ==
    [][(ppc = "loop" /\ ppc' = "loop")
          => Advanced(padapter, cursor, cursor')]_vars

\* the loop of Bybit fetch_funding_rate does advance: it breaks when the
\* last row is not after current_start
C11_BybitFundingAdvances ==
    [][(padapter.name = "bybit_funding" /\ ppc = "loop" /\ ppc' = "loop")
          => Advanced(padapter, cursor, cursor')]_vars

TokenLoop(f) == f.advance = "continuation"

\* the page carries a stop signal of the claim: no continuation token where
\* the venue pages by token, or fewer rows than the limit the request sent
StopSignalClaimed(f, p) ==
    /\ p.kind = "page"
    /\ \/ TokenLoop(f) /\ p.continuation = None
       \/ f.sends_limit /\ p.n < PageLimit

\* the stop signal of the paging mechanism the loop uses
StopSignalOfLoop(f, p) ==
    /\ p.kind = "page"
    /\ IF TokenLoop(f) THEN p.continuation = None
       ELSE f.checks_limit /\ p.n < PageLimit

\* C12 (as claimed) -- in every paginated fetch, no request follows the page
\* that came without a continuation token or with fewer rows than the page
\* limit of its request.
C12_NoRequestAfterTokenlessOrShortPage ==
    [][(padapter \in PagedFetches /\ StopSignalClaimed(padapter, last_page))
          => requests' = requests]_vars

\* C12 (amended) -- no request follows the page that carries the stop
\* signal of its own loop: no continuation token in a token loop (Bybit
\* kline, Deribit DVOL), fewer rows than the limit in a length loop (Bybit
\* funding, Binance kline and funding).
C12_NoRequestAfterStopSignalOfLoop ==
    [][(padapter \in PagedFetches /\ StopSignalOfLoop(padapter, last_page))
          => requests' = requests]_vars

\* a length loop got a full page, then a short one, and stopped although
\* its cursor is still inside the window
C12_Witness_ShortSecondPageStops ==
    /\ padapter.checks_limit
    /\ ppc = "done"
    /\ requests = 2
    /\ last_page.kind = "page"
    /\ last_page.n = 1
    /\ LoopGuard(padapter, cursor, start_timestamp, end_timestamp)

\* C13 (as claimed) -- every point a fetch with explicit start_time and
\* end_time returns has start <= timestamp < end, whatever the venue sent.
C13_ResultClippedToWindow ==
    (ppc = "done" /\ padapter.explicit_window)
        => \A i \in DOMAIN page_df :
              start_timestamp <= page_df[i] /\ page_df[i] < end_timestamp

IsSorted(s) == \A i \in 1 .. Len(s) - 1 : s[i] <= s[i + 1]

\* C14 -- the frame every fetch returns is sorted by non-decreasing
\* timestamp, whatever the order of the pages and of the rows in a page.
C14_ResultSortedByTime == ppc = "done" => IsSorted(page_df)

\* two pages arrived out of time order and a frame of three rows came back
C14_Witness_UnsortedPagesSortedFrame ==
    /\ ppc = "done"
    /\ requests >= 2
    /\ ~IsSorted(all_data)
    /\ Len(page_df) >= 3

(***************************************************************************)
(* Claims about the writer.                                                *)
(***************************************************************************)
PairwiseDistinctTimes(df) ==
    \A i, j \in DOMAIN df : i # j => df[i].time # df[j].time

InvalidCount(df) == Cardinality({ i \in DOMAIN df : ~df[i].valid })

\* C15 -- write() on N rows with pairwise distinct timestamps, k of them
\* invalid, returns N - k, whatever the buffer holds and whatever batch_size
\* is.
C15_WriteReturnsValidCount ==
    (/\ last_call.op = "write"
     /\ ~last_call.error
     /\ PairwiseDistinctTimes(last_call.df))
        => last_call.ret = Len(last_call.df) - InvalidCount(last_call.df)

\* two rows, one of them invalid, written onto a buffer that holds a point:
\* one point accepted
C15_Witness_OneOfTwoRowsDropped ==
    /\ last_call.op = "write"
    /\ ~last_call.error
    /\ last_call.before > 0
    /\ Len(last_call.df) = 2
    /\ PairwiseDistinctTimes(last_call.df)
    /\ InvalidCount(last_call.df) = 1
    /\ last_call.ret = 1

\* the rows of df at timestamp t, and the valid ones among them
RowsAt(df, t) == { i \in DOMAIN df : df[i].time = t }
ValidRowsAt(df, t) == { i \in RowsAt(df, t) : df[i].valid }
AcceptedAt(pts, t) == { i \in DOMAIN pts : pts[i].time = t }
LastOf(S) == CHOOSE i \in S : \A j \in S : j <= i

C17_BufferBelowBatchSize ==
    last_call.op \in {"write", "flush"} => Len(wbuffer) < batch_size

\* a write onto a non-empty buffer reached the capacity: the points were
\* written and the buffer is empty
C17_Witness_WriteReachedCapacity ==
    /\ last_call.op = "write"
    /\ ~last_call.error
    /\ last_call.before > 0
    /\ last_call.before + last_call.ret = batch_size
    /\ wbuffer = <<>>
    /\ persisted # EmptyBag

\* point i of the buffer is in the store, or a later buffered point of the
\* same key is
PersistedFrom(store, buf, i) ==
    LET same == { j \in i .. Len(buf) : SameKey(buf[j], buf[i]) }
    IN  buf[LastOf(same)] \in BagToSet(store)

LastSet(pair) == IF pair \in DOMAIN set_log THEN set_log[pair] ELSE "unknown"

\* C19 (as claimed) -- get_funding_period(symbol, exchange) returns
\* 'unknown' for a pair never passed to set_funding_period and the value of
\* the most recent set of that pair otherwise, whatever was set and got for
\* other pairs in between.
C19_GetReturnsLastSetOrUnknown ==
    cache_call.op = "get"
        => cache_call.ret = LastSet(<<cache_call.symbol, cache_call.exchange>>)

\* C20 (as claimed) -- the cache keeps one entry per (symbol, exchange)
\* pair, for all strings: set_funding_period(s, e, p) changes the value
\* returned for (s, e) only.
C20_SetChangesOwnPairOnly ==
    [][cache_call'.op = "set"
          => \A pair \in CachePairs :
                pair # <<cache_call'.symbol, cache_call'.exchange>>
                   => CacheGet(period_cache', pair[1], pair[2])
                        = CacheGet(period_cache, pair[1], pair[2])]_vars

\* the pairs of the tests (no ':' in the symbol) do get an entry each
C20_PairsWithoutColonSeparate ==
    \A p, q \in CachePairs :
       (p # q /\ ~Contains(p[1], sColon) /\ ~Contains(q[1], sColon))
          => CacheKey(p[1], p[2]) # CacheKey(q[1], q[2])

(***************************************************************************)
(* Claims about the entry points.                                          *)
(***************************************************************************)
\* C21: when a backfill or collection run is ended by a KeyboardInterrupt,
\* every point the writer accepted so far has been sent to the store when
\* the process has exited: none is left in the writer's buffer.
C21_InterruptFlushesBuffer ==
    (epc = "exited" /\ ended_by = "interrupt") =>
        (in_buffer = 0 /\ in_store = n_accepted)

\* the same for a run that reached the end of run()
C21_CompletedRunFlushesBuffer ==
    (epc = "exited" /\ ended_by = "completed") =>
        (in_buffer = 0 /\ in_store = n_accepted)

\* C24: the exit code is 0 when the run completed or was interrupted by the
\* user, and non-zero when an unhandled exception reached the entry point or
\* the run ended on a missing coins file.
C24_ExitCodes ==
    epc = "exited" =>
        /\ ended_by \in {"completed", "interrupt"} => exit_code = <<0>>
        /\ ended_by = "exception" => exit_code # <<0>>
        /\ (ended_by = "no_coins" /\ coins_file = "missing") => exit_code # <<0>>

\* the part of C24 about completion, interrupt and unhandled exceptions
C24_ExitCodesButConfiguration ==
    epc = "exited" =>
        /\ ended_by \in {"completed", "interrupt"} => exit_code = <<0>>
        /\ ended_by = "exception" => exit_code # <<0>>

(***************************************************************************)
(* Claims about partial failures of the migration.                         *)
(***************************************************************************)
\* C22: when a plan entry ended PARTIAL (its copy succeeded, its DELETE
\* failed), the verification pass that follows reports the entry's old
\* symbol as still in the old format.
C22_PartialEntryFlagged ==
    mpc = "done" =>
        \A i \in 1..Len(entryState) :
            entryState[i] = "PARTIAL" => plan[i].old_symbol \in flagged

\* the same for the entries whose old symbol holds no underscore, the only
\* ones the test of line 272 can report
C22_PartialEntryWithoutUnderscoreFlagged ==
    mpc = "done" =>
        \A i \in 1..Len(entryState) :
            (entryState[i] = "PARTIAL"
             /\ ~Contains(plan[i].old_symbol, sUnderscore))
                => plan[i].old_symbol \in flagged

\* C23: in the apply phase an exception raised while one entry is migrated
\* (by its SELECT, a copy batch or its DELETE) does not end the migration:
\* every entry of the plan has been attempted when the loop is over, and
\* the failing step removes nothing that was applied to the store before.
C23_FailureStopsNothingRollsBackNothing ==
    /\ []((mpc \in {"verify", "done"} /\ mode = "migrate" /\ Confirmed(response))
            => \A i \in 1..Len(plan) : entryState[i] # "PENDING")
    /\ [][faults' = faults + 1 => mstore \subseteq mstore']_vars

\* an entry failed and a later entry of the same plan was migrated
C23_Witness_FailureThenLaterEntryMigrated ==
    /\ mpc = "done"
    /\ \E i, j \in 1..Len(plan) :
         /\ i < j
         /\ entryState[i] \in {"FAILED", "PARTIAL"}
         /\ entryState[j] = "DELETED"

(***************************************************************************)
(* Claims about the asset list.                                            *)
(***************************************************************************)
\* the default data types the specification gives a venue by its name
ClaimedDefault(venue_name) ==
    IF Lower(venue_name) = s_deribit THEN {s_dvol}
    ELSE IF Lower(venue_name) = s_yfinance THEN {s_ohlc}
    ELSE {s_ohlc, s_funding_rate}

\* the data types a listed venue is configured with
ConfiguredTypes(e) ==
    IF e.types = <<>> THEN ClaimedDefault(e.venue) ELSE SeqRange(e.types)

\* the venues of a line, the second specification of a two_specs line included
ListedEntries(l) ==
    IF l.kind = "two_specs"
    THEN l.entries \o << [venue |-> s_deribit, types |-> <<>>] >>
    ELSE l.entries

\* venue block v is configured by the line: its venue is listed with the
\* data type the block fetches
BlockConfigured(v, l) ==
    /\ l.kind \in {"assets", "padded", "two_specs"}
    /\ \E i \in 1..Len(ListedEntries(l)) :
         /\ ListedEntries(l)[i].venue = BlockNames[v]
         /\ BlockDataTypes[v] \in ConfiguredTypes(ListedEntries(l)[i])

\* C25: for an entry of the asset list, backfill_coin enters the block of a
\* venue (and so calls its fetch for the windows of the symbol) if and only
\* if the venue is configured for the entry with the data type the block
\* fetches; `bybit|ohlc` enters the Bybit block as the bare `bybit` does.
C25_FetchIffConfigured ==
    apc = "dispatched" =>
        \A v \in 1..Len(BlockNames) :
            v \in blocks_entered <=> BlockConfigured(v, listing)

\* the part of C25 that holds: a block that is entered is configured
C25_EnteredBlockIsConfigured ==
    apc = "dispatched" =>
        \A v \in blocks_entered : BlockConfigured(v, listing)

MinutesOf(b) ==
    CASE b = i1m -> 1 [] b = i3m -> 3 [] b = i5m -> 5 [] b = i15m -> 15
      [] b = i30m -> 30 [] b = i1h -> 60 [] b = i2h -> 120 [] b = i4h -> 240
      [] b = i6h -> 360 [] b = i8h -> 480 [] b = i12h -> 720 [] b = i1d -> 1440
      [] b = i3d -> 4320 [] b = i1w -> 10080 [] OTHER -> 43200

Distance(a, b) == IF a > b THEN a - b ELSE b - a

\* no bucket of Binance is nearer to the requested minutes than b
NearestBucket(minutes, b) ==
    \A c \in BinanceIntervals :
        Distance(MinutesOf(b), minutes) <= Distance(MinutesOf(c), minutes)

\* C27: for every resolution, integer minutes or interval string, the
\* adapter derives an interval and goes on to the request: the conversion
\* never makes the fetch return empty, the interval Binance is sent is one
\* of its buckets, and for integer minutes it is the nearest bucket.
C27_EveryResolutionGivesNearestBucket ==
    kpc \in {"request", "requested", "except", "empty"} =>
        /\ ~kraised
        /\ kpc # "empty"
        /\ kadapter = "binance" => interval \in BinanceIntervals
        /\ (kadapter = "binance" /\ resolution.kind = "int")
               => NearestBucket(resolution.minutes, interval)

\* the part of C27 that holds: integer minutes always give an interval, and
\* a bucket of Binance named as a string is sent unchanged
C27_IntegersConvertedBucketsKept ==
    kpc \in {"request", "requested", "except", "empty"} =>
        /\ resolution.kind = "int" => (~kraised /\ interval # <<>>)
        /\ (kadapter = "binance" /\ resolution.kind = "str"
            /\ resolution.text \in BinanceIntervals)
               => interval = resolution.text

(***************************************************************************)
(* Claims about the record of a run.                                       *)
(***************************************************************************)
\* C28: the run records a fetch that returned no data differently from a
\* fetch whose rows the writer all dropped (write_market_data returned 0 for
\* a non-empty frame), so that the second case can be told from the first.
C28_DroppedRowsRecordedUnlikeNoData ==
    \A j, k \in 1..Len(callLog) :
        (/\ callLog[j].outcome = "empty"
         /\ callLog[k].outcome = "frame"
         /\ callLog[k].accepted = 0)
            => ChunkRecord(callLog[j]) # ChunkRecord(callLog[k])

\* a fetch whose rows were accepted is recorded unlike both: its points are
\* added to total_points_written
C28_AcceptedRowsRecordedUnlikeBoth ==
    \A j, k \in 1..Len(callLog) :
        (callLog[j].accepted = 0 /\ callLog[k].accepted > 0)
            => ChunkRecord(callLog[j]) # ChunkRecord(callLog[k])

\* C29: after each symbol, successful_coins + failed_coins is the number of
\* symbols processed so far, each symbol being counted once in the counter
\* of its result; when run() has completed the sum is total_coins.
C29_SucceededPlusFailedIsProcessed ==
    /\ stats.successful_coins + stats.failed_coins = Len(results)
    /\ stats.successful_coins = CountOf(results, TRUE)
    /\ stats.failed_coins = CountOf(results, FALSE)
    /\ bpc \in {"coin", "chunk", "update_stats"} => Len(results) = coin - 1
    /\ bpc \in {"flush", "done"} =>
           stats.successful_coins + stats.failed_coins = stats.total_coins

\* a run of two symbols has completed with one succeeded and one failed
C29_Witness_OneSucceededOneFailed ==
    /\ bpc = "done"
    /\ stats.total_coins = 2
    /\ stats.successful_coins = 1
    /\ stats.failed_coins = 1

CeilDiv(a, b) == (a + b - 1) \div b

\* the windows of a range of gtotal microseconds in chunks of gsize half
\* microseconds: never more than ceil(total / size) of them, none empty,
\* and once the chunk loop is through, a partition of the range
WindowsPartitionRange ==
    LET claimed == CeilDiv(2 * gtotal, gsize)
        n == Len(gwindows)
    IN  /\ Len(gstarts) <= claimed
        /\ \A i \in 1..n : gwindows[i].start < gwindows[i].end
        /\ gpc = "done" =>
             /\ n = claimed
             /\ gwindows[1].start = 0
             /\ \A i \in 1..(n - 1) :
                  /\ gwindows[i].end = gwindows[i + 1].start
                  /\ 2 * (gwindows[i].end - gwindows[i].start) = gsize
             /\ gwindows[n].end = gtotal

\* C31: for total_days > 0 and chunk_size_days > 0 the windows of
\* backfill_coin partition [start, end): the first starts at start, each
\* ends where the next starts, none is empty, all but the last last exactly
\* chunk_size_days, the last ends at end, and there are
\* ceil(total_days / chunk_size_days) of them
C31_WindowsPartitionRange ==
    gpc # "idle" => WindowsPartitionRange

\* what holds instead: the windows partition the range when the chunk size
\* is a whole number of microseconds
C31_WholeMicrosecondChunksPartition ==
    (gpc # "idle" /\ gsize % 2 = 0) => WindowsPartitionRange

\* a symbol that carries one of the suffixes migrate_data recognises
RecognisedSuffix(s) ==
    EndsWith(s, sBYBIT) \/ EndsWith(s, sYFIN) \/ EndsWith(s, sDVOL)

\* the tag combinations of the store
Combinations(store) ==
    { <<p.symbol, p.exchange, p.data_type>> : p \in store }

\* the tag combination of plan entry e
PlannedKey(e) == <<e.old_symbol, e.exchange, e.data_type>>

\* C32: the plan migrate_data builds holds an entry for (symbol, exchange,
\* data_type) exactly when the store holds a point with that tag
\* combination and the symbol has no recognised new-convention suffix, and
\* it holds each planned combination once
C32_PlanIsUnmigratedCombinations ==
    [][(mpc = "start" /\ mpc' # "start" /\ MainRunsMigrate(mode)) =>
         /\ { PlannedKey(plan'[i]) : i \in 1..Len(plan') } =
              { c \in Combinations(mstore) : ~RecognisedSuffix(c[1]) }
         /\ \A i, j \in 1..Len(plan') :
              PlannedKey(plan'[i]) = PlannedKey(plan'[j]) => i = j]_vars

\* a plan built from a store in which a combination of the tag values has
\* no point and a symbol carries a recognised suffix
C32_Witness_PlanBesideSkippedAndAbsent ==
    /\ mpc = "prompt"
    /\ plan # <<>>
    /\ \E p \in mstore : RecognisedSuffix(p.symbol)
    /\ \E p, q \in mstore : <<p.symbol, q.exchange, q.data_type>> \notin Combinations(mstore)

\* the copy of row i of the SELECT is in the store after the batch: a point
\* under the new symbol equal to the row in timestamp, exchange, data_type
\* and field values, and in the period tag as well if with_period
CopyOfRowWritten(i, with_period) ==
    \E q \in mstore' :
        /\ q.symbol = plan[idx].new_symbol
        /\ q.time = selected[i].time
        /\ q.exchange = selected[i].exchange
        /\ q.data_type = selected[i].data_type
        /\ q.val = selected[i].val
        /\ with_period => q.period = selected[i].period

\* C35: a point copied by _migrate_single_symbol equals its original in
\* timestamp, in the exchange, data_type and period tags and in the five
\* field values; only the symbol tag differs
C35_CopyChangesSymbolOnly ==
    [][(mpc = "copy" /\ nWrites' = nWrites + 1) =>
         \A i \in (copied + 1)..copied' : CopyOfRowWritten(i, TRUE)]_vars

\* what holds instead: the copy keeps timestamp, exchange, data_type and
\* the field values
C35_CopyKeepsAllButSymbolAndPeriod ==
    [][(mpc = "copy" /\ nWrites' = nWrites + 1) =>
         \A i \in (copied + 1)..copied' : CopyOfRowWritten(i, FALSE)]_vars

\* the SeriesKey plan entry e copies to
NewKey(e) == <<e.new_symbol, e.exchange, e.data_type>>

\* entry e takes the DVOL branch of calculate_new_symbol
DvolEntry(e) == Lower(e.exchange) = s_deribit /\ e.data_type = "dvol"

\* C36: two entries of one plan with different old SeriesKeys never map to
\* the same new SeriesKey
C36_DistinctSeriesStayDistinct ==
    \A i, j \in 1..Len(plan) :
        PlannedKey(plan[i]) # PlannedKey(plan[j]) =>
            NewKey(plan[i]) # NewKey(plan[j])

\* what holds instead: two entries map to the same new SeriesKey only if
\* both are Deribit DVOL entries
C36_OnlyDvolEntriesMerge ==
    \A i, j \in 1..Len(plan) :
        (PlannedKey(plan[i]) # PlannedKey(plan[j])
         /\ NewKey(plan[i]) = NewKey(plan[j])) =>
            DvolEntry(plan[i]) /\ DvolEntry(plan[j])

\* the records of the venue in the requested range [start_time, end_time]
RequestedRange == { t \in venue_records : vstart <= t /\ t <= vend }

\* C33: against a venue that answers with the newest records of
\* [startTime, endTime], at most the limit, newest first,
\* BybitKline.fetch_funding_rate returns every record of the requested
\* range exactly once, also when the range holds more records than the limit
C33_BybitFundingReturnsWholeRange ==
    (vfetch = "bybit_funding" /\ vpc = "done") =>
        vframe = Ascending(RequestedRange)

\* what holds instead: over a range that is not empty the fetch returns the
\* newest records of the range, as many as one page holds, each once
C33_BybitFundingReturnsNewestPage ==
    (vfetch = "bybit_funding" /\ vpc = "done" /\ vstart < vend) =>
        vframe = Ascending(SeqRange(Take(Descending(RequestedRange),
                                         VenueLimit)))

\* the close time of the candle that opens at t
CloseTime(t) == t + CandleWidth - 1

\* the pages of the requests follow each other: the cursor of a request is
\* the close time of the last candle of the page before plus 1, and no
\* candle of the range lies in two pages or between two pages
PagesFollowEachOther ==
    \A k \in 1..(Len(vrequests) - 1) :
        LET last == vrequests[k].page[Len(vrequests[k].page)]
        IN  /\ vrequests[k + 1].startTime = CloseTime(last) + 1
            /\ \A i \in 1..Len(vrequests[k + 1].page) :
                  vrequests[k + 1].page[i] > last
            /\ \A t \in RequestedRange :
                  (t > last /\ vrequests[k + 1].page # <<>>) =>
                      t >= vrequests[k + 1].page[1]

\* C34: against a venue that answers with the oldest candles of
\* [startTime, endTime], at most the limit, oldest first,
\* BinanceFuturesKline.fetch_historical_kline returns every candle of the
\* range exactly once; pages neither overlap nor leave a gap, the cursor of
\* the next request being the close time of the last candle plus 1
C34_BinanceReturnsWholeRange ==
    (vfetch = "binance_kline" /\ vpc = "done") =>
        /\ vframe = Ascending(RequestedRange)
        /\ PagesFollowEachOther

\* C34, amended: every candle that opens in [startTime, endTime) is
\* returned exactly once and no candle from outside [startTime, endTime];
\* pages neither overlap nor leave a gap, the cursor of the next request
\* being the close time of the last candle plus 1
C34_BinanceReturnsRangeBeforeEnd ==
    (vfetch = "binance_kline" /\ vpc = "done") =>
        /\ SelectSeq(vframe, LAMBDA t : t < vend) =
              Ascending({ t \in RequestedRange : t < vend })
        /\ \A i \in 1..Len(vframe) : vframe[i] \in RequestedRange
        /\ \A i \in 1..(Len(vframe) - 1) : vframe[i] < vframe[i + 1]
        /\ PagesFollowEachOther

\* a fetch of two requests that returned more candles than a page holds
C34_Witness_TwoPagesJoined ==
    /\ vfetch = "binance_kline"
    /\ vpc = "done"
    /\ Len(vrequests) = 2
    /\ Len(vframe) > VenueLimit

\* the series and timestamp of a point
KeyOf(p) == <<p.symbol, p.exchange, p.data_type, p.time>>

\* the last point of sequence pts with the key of pts[i]
LastWithKey(pts, i) ==
    pts[LastOf({ j \in 1..Len(pts) : KeyOf(pts[j]) = KeyOf(pts[i]) })]

CallCount(c) ==
    Cardinality({ i \in 1..Len(writer_calls) : writer_calls[i] = c })

\* run called flush() and then close(), each once and after the last write
FlushedThenClosed ==
    /\ CallCount("flush") = 1
    /\ CallCount("close") = 1
    /\ Len(writer_calls) >= 2
    /\ writer_calls[Len(writer_calls) - 1] = "flush"
    /\ writer_calls[Len(writer_calls)] = "close"

\* C38: every execution of HistoricalBackfill.run or DataCollector.run that
\* returns normally has called writer.flush() and then writer.close(), each
\* exactly once and after the last write, the execution that finds no
\* asset to process included
C38_NormalReturnFlushedThenClosed ==
    (epc = "exited" /\ ended_by \in {"completed", "no_coins"}) =>
        FlushedThenClosed

\* what holds instead: an execution that found an asset and returned
\* normally has called flush() and then close()
C38_RunWithCoinsFlushedThenClosed ==
    (epc = "exited" /\ ended_by = "completed") => FlushedThenClosed

\* the points the orchestrator has handed to the store or holds buffered
OrchestratorPoints ==
    BagToSet(influx) \cup { buffer[i] : i \in 1..Len(buffer) }

\* the series identifications the collector writes the points of venue v
\* under
CollectorSeries(v) ==
    { <<CollectorWrites[i].exchange, CollectorWrites[i].data_type>> :
        i \in { j \in 1..Len(CollectorWrites) : CollectorWrites[j].venue = v } }

\* C39: the points of the Deribit volatility-index endpoint are written
\* under the same series identification by the backfill orchestrator and
\* by the collector cycle: exchange 'Deribit' with data_type 'dvol'
C39_DvolSeriesSameInBothPrograms ==
    /\ CollectorSeries("deribit") = { <<"Deribit", "dvol">> }
    /\ \A p \in OrchestratorPoints :
          p.exchange = "Deribit" =>
              /\ <<p.exchange, p.data_type>> \in CollectorSeries("deribit")
              /\ p.data_type = "dvol"

\* what holds instead: both programs write these points with the exchange
\* tag 'Deribit', and the collector with data_type 'dvol'
C39_DvolExchangeSameInBothPrograms ==
    /\ CollectorSeries("deribit") = { <<"Deribit", "dvol">> }
    /\ \A i \in 1..Len(callLog) :
          (callLog[i].venue = "deribit" /\ callLog[i].accepted > 0) =>
              \E p \in OrchestratorPoints :
                 /\ p.exchange = "Deribit"
                 /\ p.symbol = coins[callLog[i].coin].symbol

(***************************************************************************)
(* C40                                                                     *)
(***************************************************************************)
\* every point of the old-format series (s, e, d) is in the store under the
\* new-convention symbol as well
MigratedSeries(store, s, e, d) ==
    \A p \in Matching(store, s, e, d) :
        \E q \in store :
            /\ q.symbol = calculate_new_symbol(s, e, d)
            /\ q.exchange = e
            /\ q.data_type = d
            /\ q.time = p.time
            /\ q.val = p.val

\* C40: cleanup_duplicates deletes the points of an old-format (symbol,
\* exchange, data_type) series only if that series has been migrated, that
\* is only if its points are in the store under the new-convention symbol.
C40_DeletesOnlyMigratedSeries ==
    [][\A p \in cstore \ cstore' :
          MigratedSeries(cstore, p.symbol, p.exchange, p.data_type)]_vars

\* What the script does guarantee: a point it deletes belongs to a symbol
\* without underscore and to the series (Bybit, kline) or (Deribit, dvol),
\* whether or not that series was copied.
C40_DeletesOnlyOldFormatBybitKlineAndDeribitDvol ==
    [][\A p \in cstore \ cstore' :
          /\ ~Contains(p.symbol, sUnderscore)
          /\ \/ (p.exchange = sBybit /\ p.data_type = "kline")
             \/ (p.exchange = sDeribit /\ p.data_type = "dvol")]_vars

====
